---- MODULE Spec2Model ----
(***************************************************************************)
(* Planning board of casainformaticachile/dynamicspackmanager.             *)
(* The model follows the PostgreSQL-backed server with the planning board  *)
(* (src/unnamed/part_001, lines 189-722): the tables loads,                *)
(* load_priorities, outfeed_queue and outfeed_status, the handlers that    *)
(* write them, and the external order feed the reconciliation reads.       *)
(* Text values (load names, tags) are sequences of one-character strings,  *)
(* so that LIKE, replace, parseInt, padStart and ORDER BY tag are computed *)
(* as the code computes them.                                              *)
(***************************************************************************)
EXTENDS Integers, Sequences, FiniteSets, TLC

VARIABLES db, last, nops, tx, probe

vars == <<db, last, nops, tx, probe>>

(***************************************************************************)
(* Bounds of the model.                                                    *)
(***************************************************************************)
\* operations (requests) in one behaviour
MaxOps == 3
\* longest newOrderedTags list a client sends to /api/update-queue-order
MaxOrdered == 2

(***************************************************************************)
(* Text helpers.                                                           *)
(***************************************************************************)
Digits == <<"0", "1", "2", "3", "4", "5", "6", "7", "8", "9">>

Alphabet == Digits \o <<"A", "B", "C">>

CharRank(c) == CHOOSE i \in 1..Len(Alphabet) : Alphabet[i] = c

IsDigit(c) == \E i \in 1..Len(Digits) : Digits[i] = c

DigitVal(c) == (CHOOSE i \in 1..Len(Digits) : Digits[i] = c) - 1

\* s LIKE p || '%'
StartsWith(s, p) == Len(s) >= Len(p) /\ SubSeq(s, 1, Len(p)) = p

\* String.prototype.replace(p, ''): the first occurrence of p is removed
ReplaceFirst(s, p) ==
    LET hits == {i \in 1..(Len(s) - Len(p) + 1) : SubSeq(s, i, i + Len(p) - 1) = p}
    IN  IF Len(p) = 0 \/ hits = {} THEN s
        ELSE LET i == CHOOSE h \in hits : \A g \in hits : h <= g
             IN  SubSeq(s, 1, i - 1) \o SubSeq(s, i + Len(p), Len(s))

RECURSIVE DigitsValue(_)
DigitsValue(s) ==
    IF Len(s) = 0 THEN 0
    ELSE 10 * DigitsValue(SubSeq(s, 1, Len(s) - 1)) + DigitVal(s[Len(s)])

\* parseInt(s, 10) and parseFloat(s) of a text without sign, blank or fraction:
\* the value of the leading run of digits, NaN when there is none
ParseInt(s) ==
    LET run == {n \in 0..Len(s) : \A i \in 1..n : IsDigit(s[i])}
        n == CHOOSE m \in run : \A k \in run : k <= m
    IN  [nan |-> n = 0, val |-> DigitsValue(SubSeq(s, 1, n))]

\* parseFloat(v) || d
ParseFloatOr(v, d) ==
    LET p == ParseInt(v) IN IF p.nan \/ p.val = 0 THEN d ELSE p.val

RECURSIVE ToDigits(_)
\* String(n) for n >= 0
ToDigits(n) ==
    IF n < 10 THEN <<Digits[n + 1]>>
    ELSE ToDigits(n \div 10) \o <<Digits[(n % 10) + 1]>>

RECURSIVE PadStart(_, _)
\* s.padStart(w, '0')
PadStart(s, w) == IF Len(s) >= w THEN s ELSE PadStart(<<"0">> \o s, w)

RECURSIVE TextLess(_, _)
\* s < t in the ORDER BY of a text column (digits sort before letters)
TextLess(s, t) ==
    IF Len(t) = 0 THEN FALSE
    ELSE IF Len(s) = 0 THEN TRUE
    ELSE IF s[1] # t[1] THEN CharRank(s[1]) < CharRank(t[1])
    ELSE TextLess(Tail(s), Tail(t))

(***************************************************************************)
(* The catalogue the requests and the feed draw from.                      *)
(***************************************************************************)
OrderIds == {1, 2}

\* (order_id, standard_id) pairs: order 1 has two lines, order 2 has one
Lines == {<<1, "S1">>, <<1, "S2">>, <<2, "S1">>}

LoadA == <<"A">>

LoadAB == <<"A", "B">>

LoadC == <<"C">>

LoadNames == {LoadA, LoadAB}

PriorityNames == LoadNames \cup {LoadC}

Outfeeds == {1, 2}

NoOutfeed == 0

StatusValues == {"RUNNING", "PAUSED"}

(***************************************************************************)
(* The order feed (GET URL_API_ORDENES).  A response is the HTTP outcome   *)
(* and the parsed JSON body; the expected body is [ { data: Order[] } ].   *)
(***************************************************************************)
OrderRow(line, sol, asg, desp, cxp, estado) ==
    [id_marketer_order |-> line[1], codigo_producto |-> line[2],
     cantidad_solicitada |-> sol, cantidad_asignada |-> asg,
     cantidad_despachada |-> desp, cajas_por_pallet |-> cxp,
     estado_marketer_order |-> estado]

\* (quantities are the texts parseFloat reads; the empty text is an absent field)
\* requested 10, nothing assigned, nothing shipped
PendingRow(line, estado) == OrderRow(line, <<"1", "0">>, <<"0">>, << >>, << >>, estado)

\* requested 10, assigned 10, nothing shipped, one box per pallet
DoneRow(line, estado) == OrderRow(line, <<"1", "0">>, <<"1", "0">>, <<"0">>, <<"1">>, estado)

\* requested 10, nothing assigned, shipped 10, two boxes per pallet
ShippedRow(line, estado) == OrderRow(line, <<"1", "0">>, <<"0">>, <<"1", "0">>, <<"2">>, estado)

\* the snapshots of the model: order 1 open or closed, its line S1 pending, done
\* or shipped, its line S2 done or not listed; order 2 open, its line S1 pending,
\* done or not listed; and the snapshot without orders
Snapshots ==
    {<< >>} \cup
    UNION {{<<a>> \o b \o c :
               a \in {PendingRow(<<1, "S1">>, e), DoneRow(<<1, "S1">>, e),
                      ShippedRow(<<1, "S1">>, e)},
               b \in {<< >>, <<DoneRow(<<1, "S2">>, e)>>},
               c \in {<< >>, <<PendingRow(<<2, "S1">>, "abierta")>>,
                      <<DoneRow(<<2, "S1">>, "abierta")>>}} :
           e \in {"abierta", "cerrada"}}

OkResponse(rows) ==
    [ok |-> TRUE, isNull |-> FALSE, elems |-> <<[dataIsArray |-> TRUE, data |-> rows]>>]

\* a non-OK HTTP answer, and bodies that are not [ { data: [...] } ]
BadResponses ==
    { [ok |-> FALSE, isNull |-> FALSE, elems |-> <<[dataIsArray |-> TRUE, data |-> << >>]>>],
      [ok |-> TRUE, isNull |-> TRUE, elems |-> << >>],
      [ok |-> TRUE, isNull |-> FALSE, elems |-> << >>],
      [ok |-> TRUE, isNull |-> FALSE, elems |-> <<[dataIsArray |-> FALSE, data |-> << >>]>>] }

Responses == {OkResponse(rows) : rows \in Snapshots} \cup BadResponses

(***************************************************************************)
(* getPackingStatus (part_001, 549-563).                                   *)
(***************************************************************************)
LineOf(order) == <<order.id_marketer_order, order.codigo_producto>>

\* ass / cxp >= req / cxp with cxp # 0
QuotientGeq(ass, req, cxp) == IF cxp > 0 THEN ass >= req ELSE ass <= req

\* getPackingStatus with the done rule tried before the shipped rule
getPackingStatusDoneFirst(order, isBeingPackedSet) ==
    LET req == ParseFloatOr(order.cantidad_solicitada, 0)
        ass == ParseFloatOr(order.cantidad_asignada, 0)
        cxp == ParseFloatOr(order.cajas_por_pallet, 1)
    IN  IF req > 0 /\ QuotientGeq(ass, req, cxp) THEN "done"
        ELSE IF ParseFloatOr(order.cantidad_despachada, 0) > 0 THEN "shipped"
        ELSE IF LineOf(order) \in isBeingPackedSet THEN "being_packed"
        ELSE IF ass > 0 THEN "partially"
        ELSE "pending"

getPackingStatus(order, isBeingPackedSet) ==
    IF ParseFloatOr(order.cantidad_despachada, 0) > 0 THEN "shipped"
    ELSE LET req == ParseFloatOr(order.cantidad_solicitada, 0)
             ass == ParseFloatOr(order.cantidad_asignada, 0)
             cxp == ParseFloatOr(order.cajas_por_pallet, 1)
         IN  IF req > 0 /\ QuotientGeq(ass, req, cxp) THEN "done"
             ELSE IF LineOf(order) \in isBeingPackedSet THEN "being_packed"
             ELSE IF ass > 0 THEN "partially"
             ELSE "pending"

(***************************************************************************)
(* The store.  db is the committed content of the tables:                  *)
(*   loads             order_id -> load_name (order_id is unique)          *)
(*   line_assignments  rows <<order_id, standard_id, line_name>>           *)
(*   load_priorities   load_name -> priority_order                         *)
(*   outfeed_queue     rows [outfeed_id, tag, order_id, standard_id,       *)
(*                     sequence], unique on (outfeed_id, tag) and on       *)
(*                     (outfeed_id, order_id, standard_id), the two        *)
(*                     ON CONFLICT targets of the handlers                 *)
(*   outfeed_status    outfeed_id -> status                                *)
(***************************************************************************)
QueueRow(o, t, line, q) ==
    [outfeed_id |-> o, tag |-> t, order_id |-> line[1], standard_id |-> line[2],
     sequence |-> q]

RowLine(r) == <<r.order_id, r.standard_id>>

RowsOf(queue, o) == {r \in queue : r.outfeed_id = o}

EmptyMap == [x \in {} |-> 0]

\* the rows of S in ORDER BY sequence: every order the store may return them in
\* (rows with equal sequence come in any order)
BySequence(S) ==
    LET n == Cardinality(S)
    IN  {f \in [1..n -> S] :
            /\ \A i, j \in 1..n : i # j => f[i] # f[j]
            /\ \A i, j \in 1..n : i < j => f[i].sequence <= f[j].sequence}

\* Renumber with the loop index written as it is (sequence = i, from 0)
RenumberFromZero(queue, o, items) ==
    (queue \ RowsOf(queue, o))
        \cup {[items[i] EXCEPT !.sequence = i - 1] : i \in 1..Len(items)}

\* UPDATE outfeed_queue SET sequence = i + 1 for the i-th row of items
Renumber(queue, o, items) ==
    (queue \ RowsOf(queue, o))
        \cup {[items[i] EXCEPT !.sequence = i] : i \in 1..Len(items)}

\* the re-sequencing loop with its SELECT without ORDER BY: the rows in any order
ResequenceAnyOrder(queue, o) ==
    {Renumber(queue, o, items) :
        items \in {f \in [1..Cardinality(RowsOf(queue, o)) -> RowsOf(queue, o)] :
                      \A i, j \in DOMAIN f : i # j => f[i] # f[j]}}

\* the re-sequencing loop over one outfeed: SELECT ... ORDER BY sequence, then UPDATE each
Resequence(queue, o) == {Renumber(queue, o, items) : items \in BySequence(RowsOf(queue, o))}

RECURSIVE ResequenceAll(_, _)
\* the loop over several outfeeds, from each queue of the set qs
ResequenceAll(qs, os) ==
    IF os = {} THEN qs
    ELSE LET o == CHOOSE x \in os : TRUE
         IN  ResequenceAll(UNION {Resequence(q, o) : q \in qs}, os \ {o})

(***************************************************************************)
(* POST /api/reconcile (part_001, 565-706).  The result is the set of      *)
(* outcomes the call can have: the store returns rows of equal sort key in *)
(* any order.  An outcome is [ok, fetches, db]: the answer given, the      *)
(* requests sent to the feed, and the committed tables.                    *)
(***************************************************************************)
\* apiOrdersResponse.ok, and apiData && apiData[0] && Array.isArray(apiData[0].data)
FeedAccepted(resp) ==
    /\ resp.ok
    /\ ~resp.isNull
    /\ Len(resp.elems) >= 1
    /\ resp.elems[1].dataIsArray

\* isBeingPackedSet with an outfeed without a stored status taken as RUNNING
IsBeingPackedSetDefaultRunning(d) ==
    {RowLine(r) : r \in {x \in d.outfeed_queue :
        /\ x.sequence = 1
        /\ x.outfeed_id \in DOMAIN d.outfeed_status => d.outfeed_status[x.outfeed_id] = "RUNNING"}}

\* lines at sequence 1 of an outfeed whose stored status is RUNNING
IsBeingPackedSet(d) ==
    {RowLine(r) : r \in {x \in d.outfeed_queue :
        /\ x.sequence = 1
        /\ x.outfeed_id \in DOMAIN d.outfeed_status
        /\ d.outfeed_status[x.outfeed_id] = "RUNNING"}}

\* ordersWithStatus.find(o => o.id_marketer_order == order_id && o.codigo_producto == standard_id):
\* the index of the first such order, 0 when there is none
FindOrder(orders, line) ==
    LET hits == {i \in 1..Len(orders) : LineOf(orders[i]) = line}
    IN  IF hits = {} THEN 0 ELSE CHOOSE i \in hits : \A j \in hits : i <= j

IsDoneOrShipped(st) == st = "done" \/ st = "shipped"

\* queue rows at sequence 1 whose line is done or shipped in the snapshot
RetiredHeads(d, orders) ==
    LET packed == IsBeingPackedSet(d)
    IN  {r \in d.outfeed_queue :
            /\ r.sequence = 1
            /\ FindOrder(orders, RowLine(r)) # 0
            /\ IsDoneOrShipped(getPackingStatus(orders[FindOrder(orders, RowLine(r))], packed))}

doneTagsToDelete(d, orders) == {r.tag : r \in RetiredHeads(d, orders)}

outfeedsToPromote(d, orders) == {r.outfeed_id : r \in RetiredHeads(d, orders)}

\* the queue-advancement block: every queue it can leave
AdvanceQueues(d, orders) ==
    UNION {IF tags = {} THEN {d.outfeed_queue}
           ELSE ResequenceAll({{r \in d.outfeed_queue : r.tag \notin tags}}, promote) :
              tags \in {doneTagsToDelete(d, orders)},
              promote \in {outfeedsToPromote(d, orders)}}

\* loadsGrouped[loadName]: the positions of the snapshot's orders that carry the load
OrdersInLoad(d, orders, loadName) ==
    {i \in 1..Len(orders) :
        /\ orders[i].id_marketer_order \in DOMAIN d.loads
        /\ d.loads[orders[i].id_marketer_order] = loadName}

GroupedLoads(d, orders) == {n \in LoadNames : OrdersInLoad(d, orders, n) # {}}

isLoadFullyDone(d, orders, loadName) ==
    \A i \in OrdersInLoad(d, orders, loadName) :
        IsDoneOrShipped(getPackingStatus(orders[i], IsBeingPackedSet(d)))

isLoadShippedOrClosed(d, orders, loadName) ==
    \E i \in OrdersInLoad(d, orders, loadName) :
        \/ getPackingStatus(orders[i], IsBeingPackedSet(d)) = "shipped"
        \/ orders[i].estado_marketer_order = "cerrada"

\* loadsToReleaseLetter as in the variant that also deletes the Load rows of a
\* load whose orders are all done
loadsToReleaseLetterOrDone(d, orders) ==
    {n \in GroupedLoads(d, orders) :
        isLoadShippedOrClosed(d, orders, n) \/ isLoadFullyDone(d, orders, n)}

loadsToReleaseLetter(d, orders) ==
    {n \in GroupedLoads(d, orders) : isLoadShippedOrClosed(d, orders, n)}

\* loadsToReleasePriority filled by a plain if (isLoadFullyDone), without the else
loadsToReleasePriorityAllDone(d, orders) ==
    {n \in GroupedLoads(d, orders) : isLoadFullyDone(d, orders, n)}

loadsToReleasePriority(d, orders) ==
    {n \in GroupedLoads(d, orders) :
        ~isLoadShippedOrClosed(d, orders, n) /\ isLoadFullyDone(d, orders, n)}

(***************************************************************************)
(* The release classification of the reconcile in part_000 (192-237): the  *)
(* snapshot is read through a Map keyed by order id, so each Load row      *)
(* brings the last row of its order.                                       *)
(***************************************************************************)
\* (a / c).toFixed(2) in hundredths, c > 0
ToFixed2(a, c) == (200 * a + c) \div (2 * c)

isOsDone(order) ==
    LET req == ParseFloatOr(order.cantidad_solicitada, 0)
        ass == ParseFloatOr(order.cantidad_asignada, 0)
        ship == ParseFloatOr(order.cantidad_despachada, 0)
        cxp == ParseFloatOr(order.cajas_por_pallet, 1)
    IN  IF req = 0 THEN FALSE
        ELSE QuotientGeq(ass, req, cxp) \/ ToFixed2(ship, cxp) = ToFixed2(req, cxp)

\* allApiOrdersMap.get(order_id): the position of the last row of the order
allApiOrdersMap(orders) ==
    {i \in 1..Len(orders) :
        \A j \in 1..Len(orders) :
            orders[j].id_marketer_order = orders[i].id_marketer_order => j <= i}

loadsGroupedByMap(d, orders, loadName) ==
    {i \in allApiOrdersMap(orders) :
        /\ orders[i].id_marketer_order \in DOMAIN d.loads
        /\ d.loads[orders[i].id_marketer_order] = loadName}

isLoadShipped(d, orders, loadName) ==
    \E i \in loadsGroupedByMap(d, orders, loadName) :
        ParseFloatOr(orders[i].cantidad_despachada, 0) > 0

isLoadClosed(d, orders, loadName) ==
    \A i \in loadsGroupedByMap(d, orders, loadName) :
        orders[i].estado_marketer_order = "cerrada"

isLoadFullyDoneByMap(d, orders, loadName) ==
    \A i \in loadsGroupedByMap(d, orders, loadName) : isOsDone(orders[i])

loadsToReleaseLetterByMap(d, orders) ==
    {n \in LoadNames :
        /\ loadsGroupedByMap(d, orders, n) # {}
        /\ isLoadShipped(d, orders, n) \/ isLoadClosed(d, orders, n)}

loadsToReleasePriorityByMap(d, orders) ==
    {n \in LoadNames :
        /\ loadsGroupedByMap(d, orders, n) # {}
        /\ ~(isLoadShipped(d, orders, n) \/ isLoadClosed(d, orders, n))
        /\ isLoadFullyDoneByMap(d, orders, n)}

\* ByPriority with the comparison turned round (prioB - prioA)
ByPriorityDescending(prio, S) ==
    LET n == Cardinality(S)
    IN  {f \in [1..n -> S] :
            /\ \A i, j \in 1..n : i # j => f[i] # f[j]
            /\ \A i, j \in 1..n : i < j => prio[f[i]] >= prio[f[j]]}

\* the names of S in the order of .sort((a, b) => prioA - prioB): equal ranks
\* keep the order the rows were read in, which the store does not fix
ByPriority(prio, S) ==
    LET n == Cardinality(S)
    IN  {f \in [1..n -> S] :
            /\ \A i, j \in 1..n : i # j => f[i] # f[j]
            /\ \A i, j \in 1..n : i < j => prio[f[i]] <= prio[f[j]]}

Ranked(names) == [x \in {names[i] : i \in 1..Len(names)} |->
                    CHOOSE i \in 1..Len(names) : names[i] = x]

\* finalPriorities with each kept name given its stored rank plus one
FinalPrioritiesBumped(d, orders) ==
    LET kept == {n \in DOMAIN d.load_priorities :
                    /\ n \notin loadsToReleaseLetter(d, orders)
                    /\ n \notin loadsToReleasePriority(d, orders)}
    IN  {[n \in kept |-> d.load_priorities[n] + 1]}

\* finalPriorities: every value it can take
FinalPriorities(d, orders) ==
    LET kept == {n \in DOMAIN d.load_priorities :
                    /\ n \notin loadsToReleaseLetter(d, orders)
                    /\ n \notin loadsToReleasePriority(d, orders)}
    IN  {Ranked(names) : names \in ByPriority(d.load_priorities, kept)}

\* DELETE FROM loads WHERE load_name = ANY(loadsToReleaseLetter)
DeleteLoads(loads, names) ==
    [o \in {x \in DOMAIN loads : loads[x] \notin names} |-> loads[o]]

\* FetchOrders with one more request after an answer that is not accepted
FetchOrdersRetry(answers) ==
    IF FeedAccepted(answers[1]) THEN [fetches |-> 1, resp |-> answers[1]]
    ELSE [fetches |-> 2, resp |-> answers[2]]

\* the requests the handler sends to the feed: one fetch, whose answer is used
\* as it comes (answers[i] is what the feed gives to the i-th request)
FetchOrders(answers) == [fetches |-> 1, resp |-> answers[1]]

\* { tag, order_id, standard_id } of a queue row
QueueItem(r) == [tag |-> r.tag, order_id |-> r.order_id, standard_id |-> r.standard_id]

\* one way of reading every outfeed: rows[o] gives the readings of outfeed o
ReadQueues(rows) ==
    {[o \in DOMAIN rows |-> [i \in 1..Len(pick[o]) |-> QueueItem(pick[o][i])]] :
        pick \in {f \in [DOMAIN rows -> UNION {rows[o] : o \in DOMAIN rows}] :
                     \A o \in DOMAIN rows : f[o] \in rows[o]}}

\* the queues read without ORDER BY: the rows of an outfeed in any order
finalQueuesUnordered(queue) ==
    ReadQueues([o \in {r.outfeed_id : r \in queue} |->
                   {f \in [1..Cardinality(RowsOf(queue, o)) -> RowsOf(queue, o)] :
                       \A i, j \in DOMAIN f : i # j => f[i] # f[j]}])

\* SELECT ... FROM outfeed_queue ORDER BY outfeed_id, sequence, reduced to one list
\* of { tag, order_id, standard_id } per outfeed that has rows
finalQueues(queue) ==
    ReadQueues([o \in {r.outfeed_id : r \in queue} |-> BySequence(RowsOf(queue, o))])

\* a failed call answers without state
NoState == [loads |-> EmptyMap, priorities |-> EmptyMap, queues |-> EmptyMap, statuses |-> EmptyMap]

\* finalState: loads, queues and statuses re-read in the transaction, priorities
\* as computed
finalState(d, fp) ==
    {[loads |-> d.loads, priorities |-> fp, queues |-> q, statuses |-> d.outfeed_status] :
        q \in finalQueues(d.outfeed_queue)}

\* GET /api/planning-board-state: what a read of the board may return
planningBoardState(d) ==
    {[queues |-> q, statuses |-> d.outfeed_status] :
        q \in ReadQueues([o \in {r.outfeed_id : r \in d.outfeed_queue} |->
                             BySequence(RowsOf(d.outfeed_queue, o))])}

reconcile(d, answers) ==
    LET got == FetchOrders(answers)
        orders == got.resp.elems[1].data
    IN  IF ~FeedAccepted(got.resp)
        THEN {[ok |-> FALSE, fetches |-> got.fetches, db |-> d, state |-> NoState]}
        ELSE UNION {{[ok |-> TRUE, fetches |-> got.fetches, db |-> after, state |-> st] :
                        st \in finalState(after, after.load_priorities)} :
                    after \in {[d EXCEPT !.outfeed_queue = q,
                                         !.load_priorities = fp,
                                         !.loads = DeleteLoads(d.loads, loadsToReleaseLetter(d, orders))] :
                                  q \in AdvanceQueues(d, orders), fp \in FinalPriorities(d, orders)}}

(***************************************************************************)
(* POST /api/reconcile of part_000 (201-290), the version that manages     *)
(* line assignments and cleans orphans.  It has no outfeed tables.  An     *)
(* outcome is [ok, fetches, db, state]: state is what the answer carries.  *)
(* keysMatch tells whether the order_id values the store returns are ===   *)
(* to the ids of the feed (a bigint column comes back as text, and then no *)
(* Load row finds its order in the Map).                                   *)
(***************************************************************************)
\* allApiOrders.filter(isOsDone) as (order_id, standard_id) keys
doneOsKeys(orders) == {LineOf(orders[i]) : i \in {j \in 1..Len(orders) : isOsDone(orders[j])}}

allApiOsKeys(orders) == {LineOf(orders[i]) : i \in 1..Len(orders)}

allApiOrderIds(orders) == {orders[i].id_marketer_order : i \in 1..Len(orders)}

\* DELETE FROM line_assignments WHERE (order_id, standard_id) IN (keys)
DeleteLinesIn(assignments, keys) == {r \in assignments : <<r[1], r[2]>> \notin keys}

\* the reconcile without step 4 for the lines, as in the version that has no
\* orphan cleanup
CleanOrphanLinesSkipped(assignments, orders) == assignments

\* DELETE FROM line_assignments WHERE (order_id, standard_id) NOT IN (keys), or TRUNCATE
CleanOrphanLines(assignments, orders) ==
    IF Len(orders) > 0
    THEN {r \in assignments : <<r[1], r[2]>> \in allApiOsKeys(orders)}
    ELSE {}

\* DELETE FROM loads WHERE order_id != ALL(ids), or TRUNCATE
CleanOrphanLoads(loads, orders) ==
    IF Len(orders) > 0
    THEN [o \in {x \in DOMAIN loads : x \in allApiOrderIds(orders)} |-> loads[o]]
    ELSE EmptyMap

\* SELECT DISTINCT load_name FROM loads
usedLoads(loads) == {loads[o] : o \in DOMAIN loads}

\* DELETE FROM load_priorities WHERE load_name = ANY(names)
DeletePriorities(prio, names) == [n \in DOMAIN prio \ names |-> prio[n]]

\* step 5 without its DELETE: the ranks are re-sequenced, unused loads included
SyncPrioritiesKeepUnused(prio, loads) ==
    {Ranked(names) : names \in ByPriority(prio, DOMAIN prio)}

\* step 5: priorities of unused loads deleted, the rest read ORDER BY
\* priority_order and set to 1..N in that order (equal values in any order)
SyncPriorities(prio, loads) ==
    LET kept == DOMAIN prio \cap usedLoads(loads)
    IN  {Ranked(names) : names \in ByPriority(prio, kept)}

\* the answer of a failed call carries no state
NoStateByMap == [loads |-> EmptyMap, lines |-> {}, priorities |-> EmptyMap]

\* step 6: the three tables as the transaction reads them before COMMIT
FinalStateByMap(d) ==
    [loads |-> d.loads, lines |-> d.line_assignments, priorities |-> d.load_priorities]

reconcileByMap(d, answers, keysMatch) ==
    LET got == FetchOrders(answers)
        orders == got.resp.elems[1].data
        letter == IF keysMatch THEN loadsToReleaseLetterByMap(d, orders) ELSE {}
        priority == IF keysMatch THEN loadsToReleasePriorityByMap(d, orders) ELSE {}
        loads1 == DeleteLoads(d.loads, letter)
        prio1 == DeletePriorities(d.load_priorities, priority)
        lines1 == DeleteLinesIn(d.line_assignments, doneOsKeys(orders))
        lines2 == CleanOrphanLines(lines1, orders)
        loads2 == CleanOrphanLoads(loads1, orders)
    IN  IF ~FeedAccepted(got.resp)
        THEN {[ok |-> FALSE, fetches |-> got.fetches, db |-> d, state |-> NoStateByMap]}
        ELSE {[ok |-> TRUE, fetches |-> got.fetches, db |-> after, state |-> FinalStateByMap(after)] :
                 after \in {[d EXCEPT !.loads = loads2,
                                      !.line_assignments = lines2,
                                      !.load_priorities = fp] :
                                fp \in SyncPriorities(prio1, loads2)}}

(***************************************************************************)
(* POST /api/reconcile of server.js (168-281), the autonomous version: it  *)
(* releases the Load rows of the orders whose group is closed or done,     *)
(* cleans orphans and synchronises the priorities as part_000 does.  The   *)
(* groups are made by order_number: numbered tells whether the feed gives  *)
(* each order its own number (without the field all rows make one group).  *)
(***************************************************************************)
\* ordersGroupedByNumber: the groups as sets of row indexes
ordersGroupedByNumber(orders, numbered) ==
    IF numbered
    THEN {{i \in 1..Len(orders) : orders[i].id_marketer_order = o} : o \in allApiOrderIds(orders)}
    ELSE {1..Len(orders)} \ {{}}

orderIdsToReleaseLoad(orders, numbered) ==
    UNION {{orders[i].id_marketer_order : i \in g} :
              g \in {h \in ordersGroupedByNumber(orders, numbered) :
                         \/ \A i \in h : orders[i].estado_marketer_order = "cerrada"
                         \/ \A i \in h : isOsDone(orders[i])}}

\* DELETE FROM loads WHERE order_id = ANY(ids)
DeleteLoadsOf(loads, ids) == [o \in DOMAIN loads \ ids |-> loads[o]]

reconcileAutonomous(d, answers, numbered) ==
    LET got == FetchOrders(answers)
        orders == got.resp.elems[1].data
        lines1 == DeleteLinesIn(d.line_assignments, doneOsKeys(orders))
        loads1 == DeleteLoadsOf(d.loads, orderIdsToReleaseLoad(orders, numbered))
        lines2 == CleanOrphanLines(lines1, orders)
        loads2 == CleanOrphanLoads(loads1, orders)
    IN  IF ~FeedAccepted(got.resp)
        THEN {[ok |-> FALSE, fetches |-> got.fetches, db |-> d, state |-> NoStateByMap]}
        ELSE {[ok |-> TRUE, fetches |-> got.fetches, db |-> after, state |-> NoStateByMap] :
                 after \in {[d EXCEPT !.loads = loads2,
                                      !.line_assignments = lines2,
                                      !.load_priorities = fp] :
                                fp \in SyncPriorities(d.load_priorities, loads2)}}

(***************************************************************************)
(* POST /api/lines (part_000, 152-168).  The key is "orderId-standardId";  *)
(* a request without a key is refused.                                     *)
(***************************************************************************)
NoLine == <<0, "">>

postLines(d, key, names) ==
    IF key = NoLine THEN [ok |-> FALSE, db |-> d]
    ELSE [ok |-> TRUE,
          db |-> [d EXCEPT !.line_assignments =
                     DeleteLinesIn(d.line_assignments, {key})
                         \cup {<<key[1], key[2], names[i]>> : i \in 1..Len(names)}]]

(***************************************************************************)
(* POST /api/plan-order (part_001, 299-363).  An outcome is                *)
(* [ok, db, newTag]; a failed call answers without a tag (the empty text). *)
(***************************************************************************)
NoTag == << >>

\* SELECT tag FROM outfeed_queue WHERE order_id = .. AND standard_id = .. LIMIT 1:
\* every tag the store may return
ExistingTags(queue, line) == {r.tag : r \in {x \in queue : RowLine(x) = line}}

\* SELECT tag ... WHERE tag LIKE loadName || '%' ORDER BY tag DESC LIMIT 1
LastTags(queue, loadName) ==
    LET like == {r.tag : r \in {x \in queue : StartsWith(x.tag, loadName)}}
    IN  {t \in like : \A u \in like : ~TextLess(t, u)}

\* the tag generated after lastTag (NoTag when no tag matched)
NextTag(loadName, lastTag) ==
    LET lastNumber == ParseInt(ReplaceFirst(lastTag, loadName))
        newTagNumber == IF lastTag # NoTag /\ ~lastNumber.nan THEN lastNumber.val + 1 ELSE 1
    IN  loadName \o PadStart(ToDigits(newTagNumber), 3)

\* the else branch of step 2: the tags generated for a line that has none
GenerateTags(queue, loadName) ==
    IF LastTags(queue, loadName) = {} THEN {NextTag(loadName, NoTag)}
    ELSE {NextTag(loadName, t) : t \in LastTags(queue, loadName)}

\* step 2 of the handler: the tags it can settle on
ResolveTags(queue, line, loadName) ==
    IF ExistingTags(queue, line) # {} THEN ExistingTags(queue, line)
    ELSE GenerateTags(queue, loadName)

\* INSERT ... ON CONFLICT (outfeed_id, order_id, standard_id) DO NOTHING:
\* [err, queue]; a row of the outfeed with the same tag and another line violates
\* the (outfeed_id, tag) index, which the ON CONFLICT clause does not cover
InsertOrNothing(queue, row) ==
    IF \E r \in queue : r.outfeed_id = row.outfeed_id /\ RowLine(r) = RowLine(row)
    THEN [err |-> FALSE, queue |-> queue]
    ELSE IF \E r \in queue : r.outfeed_id = row.outfeed_id /\ r.tag = row.tag
    THEN [err |-> TRUE, queue |-> queue]
    ELSE [err |-> FALSE, queue |-> queue \cup {row}]

\* the UPDATE without its WHERE: every outfeed is shifted
ShiftDownEverywhere(queue, o) == {[r EXCEPT !.sequence = r.sequence + 1] : r \in queue}

\* UPDATE outfeed_queue SET sequence = sequence + 1 WHERE outfeed_id = o
ShiftDown(queue, o) ==
    {IF r.outfeed_id = o THEN [r EXCEPT !.sequence = r.sequence + 1] ELSE r : r \in queue}

\* the append position taken from the number of rows of the outfeed
MaxSequenceByCount(queue, o) == Cardinality(RowsOf(queue, o))

\* COALESCE(MAX(sequence), 0) of the outfeed
MaxSequence(queue, o) ==
    LET S == {r.sequence : r \in RowsOf(queue, o)}
    IN  IF S = {} THEN 0 ELSE CHOOSE m \in S : \A x \in S : x <= m

\* one turn of the loop over outfeedIds
PlanInOutfeed(queue, o, tag, line, isHighPriority) ==
    IF isHighPriority
    THEN InsertOrNothing(ShiftDown(queue, o), QueueRow(o, tag, line, 1))
    ELSE InsertOrNothing(queue, QueueRow(o, tag, line, MaxSequence(queue, o) + 1))

RECURSIVE PlanLoop(_, _, _, _, _)
PlanLoop(queue, outfeedIds, tag, line, isHighPriority) ==
    IF Len(outfeedIds) = 0 THEN [err |-> FALSE, queue |-> queue]
    ELSE LET one == PlanInOutfeed(queue, Head(outfeedIds), tag, line, isHighPriority)
         IN  IF one.err THEN one
             ELSE PlanLoop(one.queue, Tail(outfeedIds), tag, line, isHighPriority)

\* the load lookup that takes load A for an order without a Load row
LoadLookupDefault(d, orderId) ==
    IF orderId \in DOMAIN d.loads THEN [found |-> TRUE, load_name |-> d.loads[orderId]]
    ELSE [found |-> TRUE, load_name |-> LoadA]

\* SELECT load_name FROM loads WHERE order_id = ..: rows.length > 0, rows[0].load_name
LoadLookup(d, orderId) ==
    IF orderId \in DOMAIN d.loads THEN [found |-> TRUE, load_name |-> d.loads[orderId]]
    ELSE [found |-> FALSE, load_name |-> << >>]

\* the answers of a failed call: 400 for a request without its fields, 500 with
\* the message of the handler's own error, 500 with the message of the store
planOrder(d, line, outfeedIds, isHighPriority) ==
    IF Len(outfeedIds) = 0
    THEN {[ok |-> FALSE, db |-> d, newTag |-> NoTag, error |-> "ValidationError"]}
    ELSE IF ~LoadLookup(d, line[1]).found
    THEN {[ok |-> FALSE, db |-> d, newTag |-> NoTag, error |-> "NoLoadAssigned"]}
    ELSE {LET done == PlanLoop(d.outfeed_queue, outfeedIds, tag, line, isHighPriority)
          IN  IF done.err
              THEN [ok |-> FALSE, db |-> d, newTag |-> NoTag, error |-> "StoreError"]
              ELSE [ok |-> TRUE, db |-> [d EXCEPT !.outfeed_queue = done.queue],
                    newTag |-> tag, error |-> ""] :
             tag \in ResolveTags(d.outfeed_queue, line, LoadLookup(d, line[1]).load_name)}

(***************************************************************************)
(* POST /api/unplan-order (part_001, 366-396).  outfeedId is NoOutfeed     *)
(* when the request does not name one.                                     *)
(***************************************************************************)
\* SELECT DISTINCT outfeed_id ... WHERE outfeed_id IN (SELECT outfeed_id ... WHERE tag = ..),
\* run after the DELETE
AffectedOutfeeds(queue, tag) == {r.outfeed_id : r \in {x \in queue : x.tag = tag}}

unplanOrder(d, tag, outfeedId) ==
    IF tag = NoTag THEN {[ok |-> FALSE, db |-> d]}
    ELSE LET left == IF outfeedId # NoOutfeed
                     THEN {r \in d.outfeed_queue : ~(r.tag = tag /\ r.outfeed_id = outfeedId)}
                     ELSE {r \in d.outfeed_queue : r.tag # tag}
         IN  {[ok |-> TRUE, db |-> [d EXCEPT !.outfeed_queue = q]] :
                 q \in ResequenceAll({left}, AffectedOutfeeds(left, tag))}

(***************************************************************************)
(* POST /api/update-queue-order (part_001, 401-439).  newOrderedTags is a  *)
(* list of [tag, order_id, standard_id].                                   *)
(***************************************************************************)
\* INSERT ... ON CONFLICT (outfeed_id, tag) DO UPDATE SET sequence = i:
\* a row of the outfeed with the same line under another tag violates the
\* (outfeed_id, order_id, standard_id) index
\* the INSERT without its ON CONFLICT clause on a table without unique indexes
UpsertPlainInsert(queue, o, e, i) ==
    [err |-> FALSE,
     queue |-> queue \cup {QueueRow(o, e.tag, <<e.order_id, e.standard_id>>, i)}]

Upsert(queue, o, e, i) ==
    IF \E r \in queue : r.outfeed_id = o /\ r.tag = e.tag
    THEN [err |-> FALSE,
          queue |-> {IF r.outfeed_id = o /\ r.tag = e.tag
                     THEN [r EXCEPT !.sequence = i] ELSE r : r \in queue}]
    ELSE IF \E r \in queue : r.outfeed_id = o /\ RowLine(r) = <<e.order_id, e.standard_id>>
    THEN [err |-> TRUE, queue |-> queue]
    ELSE [err |-> FALSE,
          queue |-> queue \cup {QueueRow(o, e.tag, <<e.order_id, e.standard_id>>, i)}]

RECURSIVE UpsertLoop(_, _, _, _)
UpsertLoop(queue, o, entries, i) ==
    IF i > Len(entries) THEN [err |-> FALSE, queue |-> queue]
    ELSE LET one == Upsert(queue, o, entries[i], i)
         IN  IF one.err THEN one ELSE UpsertLoop(one.queue, o, entries, i + 1)

updateQueueOrder(d, fromOutfeedId, toOutfeedId, movedTag, newOrderedTags) ==
    IF toOutfeedId = NoOutfeed \/ movedTag = NoTag THEN [ok |-> FALSE, db |-> d]
    ELSE LET left == IF fromOutfeedId # NoOutfeed /\ fromOutfeedId # toOutfeedId
                     THEN {r \in d.outfeed_queue :
                              ~(r.tag = movedTag /\ r.outfeed_id = fromOutfeedId)}
                     ELSE d.outfeed_queue
             done == UpsertLoop(left, toOutfeedId, newOrderedTags, 1)
         IN  IF done.err THEN [ok |-> FALSE, db |-> d]
             ELSE [ok |-> TRUE, db |-> [d EXCEPT !.outfeed_queue = done.queue]]

(***************************************************************************)
(* POST /api/outfeed-status (443-458), /api/loads (513-530),               *)
(* /api/priorities (532-544).                                              *)
(***************************************************************************)
\* setOutfeedStatus without the test of the status value
setOutfeedStatusUnchecked(d, outfeedId, status) ==
    IF outfeedId = NoOutfeed THEN [ok |-> FALSE, db |-> d]
    ELSE [ok |-> TRUE,
          db |-> [d EXCEPT !.outfeed_status =
                    [o \in DOMAIN d.outfeed_status \cup {outfeedId} |->
                        IF o = outfeedId THEN status ELSE d.outfeed_status[o]]]]

setOutfeedStatus(d, outfeedId, status) ==
    IF outfeedId = NoOutfeed \/ status \notin {"RUNNING", "PAUSED"} THEN [ok |-> FALSE, db |-> d]
    ELSE [ok |-> TRUE,
          db |-> [d EXCEPT !.outfeed_status =
                    [o \in DOMAIN d.outfeed_status \cup {outfeedId} |->
                        IF o = outfeedId THEN status ELSE d.outfeed_status[o]]]]

\* one update {orderId, load}: the empty text (no load) deletes the row
ApplyLoadUpdate(loads, u) ==
    IF u.load # << >>
    THEN [o \in DOMAIN loads \cup {u.orderId} |-> IF o = u.orderId THEN u.load ELSE loads[o]]
    ELSE [o \in DOMAIN loads \ {u.orderId} |-> loads[o]]

RECURSIVE ApplyLoadUpdates(_, _)
ApplyLoadUpdates(loads, updates) ==
    IF Len(updates) = 0 THEN loads
    ELSE ApplyLoadUpdates(ApplyLoadUpdate(loads, Head(updates)), Tail(updates))

postLoads(d, updates) ==
    [ok |-> TRUE, db |-> [d EXCEPT !.loads = ApplyLoadUpdates(d.loads, updates)]]

\* TRUNCATE load_priorities, then one INSERT per entry of the body
postPriorities(d, newPriorities) ==
    [ok |-> TRUE, db |-> [d EXCEPT !.load_priorities = newPriorities]]

(***************************************************************************)
(* The requests of the model.                                              *)
(***************************************************************************)
OutfeedIdLists == {<< >>, <<1>>, <<2>>, <<1, 2>>, <<1, 1>>}

QueuedTags(d) == {r.tag : r \in d.outfeed_queue}

Entry(t, line) == [tag |-> t, order_id |-> line[1], standard_id |-> line[2]]

\* an entry of a board that is out of date: line (1, S1) under tag A002
StaleEntry == Entry(LoadA \o <<"0", "0", "2">>, <<1, "S1">>)

\* the entries a client can list: those of the queue rows, and the stale one
ClientEntries(d) == {Entry(r.tag, RowLine(r)) : r \in d.outfeed_queue} \cup {StaleEntry}

RECURSIVE EntryLists(_, _)
\* the lists of at most n entries of E, no entry twice
EntryLists(E, n) ==
    IF n = 0 THEN {<< >>}
    ELSE LET shorter == EntryLists(E, n - 1)
         IN  shorter \cup {Append(l, e) : l \in shorter, e \in E}

NoRepeat(l) == \A i, j \in 1..Len(l) : i # j => l[i] # l[j]

LoadUpdate(o, l) == [orderId |-> o, load |-> l]

LoadUpdateLists ==
    LET one == {LoadUpdate(o, l) : o \in OrderIds, l \in LoadNames \cup {<< >>}}
    IN  {<<u>> : u \in one}
          \cup {<<u, v>> : u \in {x \in one : x.orderId = 1}, v \in {x \in one : x.orderId = 2}}

PriorityBodies ==
    { EmptyMap,
      (LoadA :> 1),
      (LoadA :> 1) @@ (LoadAB :> 2),
      (LoadA :> 2) @@ (LoadAB :> 1) @@ (LoadC :> 3),
      (LoadA :> 2) @@ (LoadAB :> 3) @@ (LoadC :> 1),
      (LoadA :> 1) @@ (LoadAB :> 1),
      (LoadAB :> 2) @@ (LoadC :> 5) }

NoArgs ==
    [line |-> <<0, "">>, outfeedIds |-> << >>, isHighPriority |-> FALSE, tag |-> NoTag,
     outfeedId |-> NoOutfeed, fromOutfeedId |-> NoOutfeed, toOutfeedId |-> NoOutfeed,
     entries |-> << >>, answers |-> << >>,
     status |-> "", updates |-> << >>, priorities |-> EmptyMap, newTag |-> NoTag,
     fetches |-> 0, error |-> "", state |-> NoState]

\* the record of the last request: what was asked, the tables before it, the answer
Done(op, args, pre, ok) == [op |-> op, args |-> args, pre |-> pre, ok |-> ok]

\* what the feed answers to a second request of the same call
RetryAnswer == OkResponse(<<DoneRow(<<1, "S1">>, "abierta"), DoneRow(<<2, "S1">>, "abierta")>>)

EmptyDb ==
    [loads |-> EmptyMap,
     line_assignments |-> {},
     load_priorities |-> EmptyMap,
     outfeed_queue |-> {},
     outfeed_status |-> EmptyMap]

\* the tables as the server finds them: both orders assigned to load A, one line
\* assignment, no priorities, nothing queued, no outfeed status stored
InitialDb ==
    [EmptyDb EXCEPT !.loads = (1 :> LoadA) @@ (2 :> LoadA),
                    !.line_assignments = {<<1, "S1", "L1">>}]

\* no function is applied on its own
NoProbe ==
    [fn |-> "none", order |-> OrderRow(<<0, "">>, << >>, << >>, << >>, << >>, ""),
     flag |-> FALSE, status |-> "", queue |-> {}, loadName |-> << >>, tag |-> << >>]

\* no transaction is open
NoTx == [op |-> "none", args |-> NoArgs, pre |-> EmptyDb, work |-> EmptyDb, pc |-> 0]

Init ==
    /\ db = InitialDb
    /\ last = Done("none", NoArgs, EmptyDb, TRUE)
    /\ nops = 0
    /\ tx = NoTx
    /\ probe = NoProbe

\* a request is taken when the previous one is settled and the budget allows one more
Ready == last.op = "none" /\ tx.op = "none" /\ nops < MaxOps

Step(op, args, out) ==
    /\ nops' = nops + 1
    /\ db' = out.db
    /\ last' = Done(op, args, db, out.ok)
    /\ UNCHANGED <<tx, probe>>

PlanOrder ==
    /\ Ready
    /\ \E line \in Lines, ids \in OutfeedIdLists, hp \in BOOLEAN :
        \E out \in planOrder(db, line, ids, hp) :
            Step("planOrder",
                 [NoArgs EXCEPT !.line = line, !.outfeedIds = ids, !.isHighPriority = hp,
                                !.newTag = out.newTag, !.error = out.error],
                 out)

UnplanOrder ==
    /\ Ready
    /\ \E tag \in QueuedTags(db) \cup {NoTag}, o \in Outfeeds \cup {NoOutfeed} :
        \E out \in unplanOrder(db, tag, o) :
            Step("unplanOrder", [NoArgs EXCEPT !.tag = tag, !.outfeedId = o], out)

UpdateQueueOrder ==
    /\ Ready
    /\ \E to \in Outfeeds, entries \in EntryLists(ClientEntries(db), MaxOrdered) :
        \E from \in {NoOutfeed} \cup (Outfeeds \ {to}),
           moved \in IF Len(entries) = 0 THEN QueuedTags(db)
                     ELSE {entries[i].tag : i \in 1..Len(entries)} :
            /\ NoRepeat(entries)
            /\ Step("updateQueueOrder",
                    [NoArgs EXCEPT !.fromOutfeedId = from, !.toOutfeedId = to, !.tag = moved,
                                   !.entries = entries],
                    updateQueueOrder(db, from, to, moved, entries))

Reconcile ==
    /\ Ready
    /\ \E resp \in Responses :
        \E out \in reconcile(db, <<resp, RetryAnswer>>) :
            Step("reconcile",
                 [NoArgs EXCEPT !.answers = <<resp, RetryAnswer>>, !.fetches = out.fetches,
                                !.state = out.state],
                 out)

SetOutfeedStatus ==
    /\ Ready
    /\ \E o \in Outfeeds, st \in StatusValues \cup {"STOPPED"} :
        Step("setOutfeedStatus", [NoArgs EXCEPT !.outfeedId = o, !.status = st],
             setOutfeedStatus(db, o, st))

PostLoads ==
    /\ Ready
    /\ \E updates \in LoadUpdateLists :
        Step("postLoads", [NoArgs EXCEPT !.updates = updates], postLoads(db, updates))

PostPriorities ==
    /\ Ready
    /\ \E body \in PriorityBodies :
        Step("postPriorities", [NoArgs EXCEPT !.priorities = body], postPriorities(db, body))

\* the exchange is over: its record is dropped
Settle ==
    /\ last.op # "none"
    /\ last' = Done("none", NoArgs, EmptyDb, TRUE)
    /\ tx' = NoTx
    /\ UNCHANGED <<db, nops, probe>>

Next ==
    \/ Settle
    \/ PlanOrder
    \/ UnplanOrder
    \/ UpdateQueueOrder
    \/ Reconcile
    \/ SetOutfeedStatus
    \/ PostLoads
    \/ PostPriorities

Spec == Init /\ [][Next]_vars

(***************************************************************************)
(* The same handlers statement by statement.  A handler takes a client,    *)
(* sends BEGIN, its statements, and COMMIT; its catch block sends          *)
(* ROLLBACK.  tx is the open transaction: the request, the tables at       *)
(* BEGIN, the tables as the transaction sees them (work), and the number   *)
(* of write statements done (pc).  db stays what every other connection    *)
(* reads.  A transaction that was rolled back is kept, marked, until the   *)
(* exchange is settled.                                                    *)
(***************************************************************************)
\* transactions in one behaviour of SpecTx
MaxTx == 2

NoStatement ==
    [kind |-> "none", o |-> NoOutfeed, tag |-> NoTag, tags |-> {}, names |-> {},
     entry |-> Entry(NoTag, <<0, "">>), i |-> 0]

\* throw new Error(..) inside the try block
Throw == [NoStatement EXCEPT !.kind = "throw"]

RECURSIVE PlanStatements(_, _)
\* the writes of the loop over outfeedIds (339-351)
PlanStatements(outfeedIds, isHighPriority) ==
    IF Len(outfeedIds) = 0 THEN << >>
    ELSE (IF isHighPriority
          THEN <<[NoStatement EXCEPT !.kind = "shift", !.o = Head(outfeedIds)],
                 [NoStatement EXCEPT !.kind = "insertFirst", !.o = Head(outfeedIds)]>>
          ELSE <<[NoStatement EXCEPT !.kind = "append", !.o = Head(outfeedIds)]>>)
         \o PlanStatements(Tail(outfeedIds), isHighPriority)

\* the outfeeds of S in the order the loop takes them
OutfeedList(S) == SelectSeq(<<1, 2>>, LAMBDA o : o \in S)

\* the writes of reconcile (614-675), decided on the tables read after BEGIN
ReconcileStatements(d, answers) ==
    LET got == FetchOrders(answers)
        orders == got.resp.elems[1].data
        tags == doneTagsToDelete(d, orders)
        promote == OutfeedList(outfeedsToPromote(d, orders))
        letters == loadsToReleaseLetter(d, orders)
        kept == DOMAIN d.load_priorities \ (letters \cup loadsToReleasePriority(d, orders))
    IN  IF ~FeedAccepted(got.resp) THEN <<Throw>>
        ELSE (IF tags = {} THEN << >>
              ELSE <<[NoStatement EXCEPT !.kind = "deleteTags", !.tags = tags]>>
                     \o [k \in 1..Len(promote) |->
                            [NoStatement EXCEPT !.kind = "resequence", !.o = promote[k]]])
             \o <<[NoStatement EXCEPT !.kind = "truncatePriorities"]>>
             \o (IF kept = {} THEN << >>
                 ELSE <<[NoStatement EXCEPT !.kind = "insertPriorities"]>>)
             \o (IF letters = {} THEN << >>
                 ELSE <<[NoStatement EXCEPT !.kind = "deleteLoads", !.names = letters]>>)

\* the write statements of the open transaction, in the order the handler sends them
Program(t) ==
    CASE t.op = "planOrder" ->
            IF t.args.line[1] \notin DOMAIN t.pre.loads THEN <<Throw>>
            ELSE PlanStatements(t.args.outfeedIds, t.args.isHighPriority)
      [] t.op = "unplanOrder" ->
            <<[NoStatement EXCEPT !.kind = "delete", !.tag = t.args.tag, !.o = t.args.outfeedId],
              [NoStatement EXCEPT !.kind = "resequenceAffected", !.tag = t.args.tag]>>
      [] t.op = "updateQueueOrder" ->
            (IF t.args.fromOutfeedId # NoOutfeed /\ t.args.fromOutfeedId # t.args.toOutfeedId
             THEN <<[NoStatement EXCEPT !.kind = "delete", !.tag = t.args.tag,
                                        !.o = t.args.fromOutfeedId]>>
             ELSE << >>)
            \o [k \in 1..Len(t.args.entries) |->
                   [NoStatement EXCEPT !.kind = "upsert", !.o = t.args.toOutfeedId,
                                       !.entry = t.args.entries[k], !.i = k]]
      [] t.op = "reconcile" -> ReconcileStatements(t.pre, t.args.answers)
      [] OTHER -> << >>

\* the outcomes [err, queue] of a statement on outfeed_queue
ExecOnQueue(t, st) ==
    LET q == t.work.outfeed_queue
    IN  CASE st.kind = "shift" -> {[err |-> FALSE, queue |-> ShiftDown(q, st.o)]}
          [] st.kind = "insertFirst" ->
                {InsertOrNothing(q, QueueRow(st.o, t.args.newTag, t.args.line, 1))}
          [] st.kind = "append" ->
                {InsertOrNothing(q, QueueRow(st.o, t.args.newTag, t.args.line,
                                             MaxSequence(q, st.o) + 1))}
          [] st.kind = "delete" ->
                {[err |-> FALSE,
                  queue |-> IF st.o # NoOutfeed
                            THEN {r \in q : ~(r.tag = st.tag /\ r.outfeed_id = st.o)}
                            ELSE {r \in q : r.tag # st.tag}]}
          [] st.kind = "resequenceAffected" ->
                {[err |-> FALSE, queue |-> x] :
                    x \in ResequenceAll({q}, AffectedOutfeeds(q, st.tag))}
          [] st.kind = "upsert" -> {Upsert(q, st.o, st.entry, st.i)}
          [] st.kind = "deleteTags" ->
                {[err |-> FALSE, queue |-> {r \in q : r.tag \notin st.tags}]}
          [] st.kind = "resequence" -> {[err |-> FALSE, queue |-> x] : x \in Resequence(q, st.o)}
          [] OTHER -> {[err |-> FALSE, queue |-> q]}

\* the outcomes [err, db] of statement st in transaction t: db is the tables as
\* the transaction sees them afterwards
Exec(t, st) ==
    CASE st.kind = "throw" -> {[err |-> TRUE, db |-> t.work]}
      [] st.kind = "truncatePriorities" ->
            {[err |-> FALSE, db |-> [t.work EXCEPT !.load_priorities = EmptyMap]]}
      [] st.kind = "insertPriorities" ->
            {[err |-> FALSE, db |-> [t.work EXCEPT !.load_priorities = fp]] :
                fp \in FinalPriorities(t.pre, FetchOrders(t.args.answers).resp.elems[1].data)}
      [] st.kind = "deleteLoads" ->
            {[err |-> FALSE, db |-> [t.work EXCEPT !.loads = DeleteLoads(t.work.loads, st.names)]]}
      [] OTHER ->
            {[err |-> out.err, db |-> [t.work EXCEPT !.outfeed_queue = out.queue]] :
                out \in ExecOnQueue(t, st)}

\* a statement sent through pool.query: committed as soon as it is done
OnPool(committed, written) == written

\* a statement sent on the client that holds the transaction: the committed tables
\* stay as they are until COMMIT
OnClient(committed, written) == committed

\* BEGIN and the reads that come before the first write
Begin(op, args) ==
    /\ nops' = nops + 1
    /\ tx' = [op |-> op, args |-> args, pre |-> db, work |-> db, pc |-> 0]
    /\ UNCHANGED <<db, last, probe>>

TxReady == last.op = "none" /\ tx.op = "none" /\ nops < MaxTx

BeginPlanOrder ==
    /\ TxReady
    /\ \E line \in Lines, ids \in OutfeedIdLists \ {<< >>}, hp \in BOOLEAN :
        \E tag \in IF line[1] \in DOMAIN db.loads
                   THEN ResolveTags(db.outfeed_queue, line, db.loads[line[1]])
                   ELSE {NoTag} :
            Begin("planOrder",
                  [NoArgs EXCEPT !.line = line, !.outfeedIds = ids, !.isHighPriority = hp,
                                 !.newTag = tag])

BeginUnplanOrder ==
    /\ TxReady
    /\ \E tag \in QueuedTags(db), o \in Outfeeds \cup {NoOutfeed} :
        Begin("unplanOrder", [NoArgs EXCEPT !.tag = tag, !.outfeedId = o])

BeginUpdateQueueOrder ==
    /\ TxReady
    /\ \E to \in Outfeeds, entries \in EntryLists(ClientEntries(db), MaxOrdered) \ {<< >>} :
        \E from \in {NoOutfeed} \cup (Outfeeds \ {to}),
           moved \in {entries[i].tag : i \in 1..Len(entries)} :
            /\ NoRepeat(entries)
            /\ Begin("updateQueueOrder",
                     [NoArgs EXCEPT !.fromOutfeedId = from, !.toOutfeedId = to, !.tag = moved,
                                    !.entries = entries])

BeginReconcile ==
    /\ TxReady
    /\ \E resp \in Responses :
        Begin("reconcile", [NoArgs EXCEPT !.answers = <<resp, RetryAnswer>>,
                                          !.fetches = FetchOrders(<<resp, RetryAnswer>>).fetches])

\* the requests that run in a transaction of their own
TxOps == {"planOrder", "unplanOrder", "updateQueueOrder", "reconcile"}

\* the next write statement of the handler succeeds
TxStatement ==
    /\ tx.op \in TxOps
    /\ tx.pc < Len(Program(tx))
    /\ \E out \in Exec(tx, Program(tx)[tx.pc + 1]) :
        /\ ~out.err
        /\ tx' = [tx EXCEPT !.work = out.db, !.pc = tx.pc + 1]
        /\ db' = OnClient(db, out.db)
    /\ UNCHANGED <<last, nops, probe>>

\* a statement throws (the store fails at this step, the handler throws, or COMMIT
\* fails): the catch block sends ROLLBACK and answers with the failure
TxRollback ==
    /\ tx.op \in TxOps
    /\ last' = Done(tx.op, [tx.args EXCEPT !.newTag = NoTag], tx.pre, FALSE)
    /\ tx' = [tx EXCEPT !.op = "rolledBack"]
    /\ UNCHANGED <<db, nops, probe>>

\* COMMIT after the last statement: the tables of the transaction become the
\* committed ones
TxCommit ==
    /\ tx.op \in TxOps
    /\ tx.pc = Len(Program(tx))
    /\ db' = tx.work
    /\ last' = Done(tx.op, tx.args, tx.pre, TRUE)
    /\ tx' = NoTx
    /\ UNCHANGED <<nops, probe>>

\* priorities are set between transactions
SetPriorities ==
    /\ TxReady
    /\ \E body \in PriorityBodies :
        /\ db' = postPriorities(db, body).db
        /\ UNCHANGED <<last, nops, tx, probe>>

NextTx ==
    \/ Settle
    \/ SetPriorities
    \/ BeginPlanOrder
    \/ BeginUnplanOrder
    \/ BeginUpdateQueueOrder
    \/ BeginReconcile
    \/ TxStatement
    \/ TxRollback
    \/ TxCommit

SpecTx == Init /\ [][NextTx]_vars

(***************************************************************************)
(* getPackingStatus on its own: an order of the feed with any of the field *)
(* texts below, being packed or not.                                       *)
(***************************************************************************)
\* an absent field, 0, 5, 10, and a text that is no number
QuantityTexts == {<< >>, <<"0">>, <<"5">>, <<"1", "0">>, <<"A">>}

\* an absent field, 0, 1 and 2 boxes per pallet
PalletTexts == {<< >>, <<"0">>, <<"1">>, <<"2">>}

ClassifyOrders ==
    {OrderRow(<<1, "S1">>, sol, asg, desp, cxp, "abierta") :
        sol \in QuantityTexts, asg \in QuantityTexts, desp \in QuantityTexts,
        cxp \in PalletTexts}

InitClassify ==
    /\ db = InitialDb
    /\ last = Done("none", NoArgs, EmptyDb, TRUE)
    /\ nops = 0
    /\ tx = NoTx
    /\ probe \in {[NoProbe EXCEPT !.fn = "order", !.order = o, !.flag = f] :
                      o \in ClassifyOrders, f \in BOOLEAN}

Classify ==
    /\ probe.fn = "order"
    /\ probe' = [probe EXCEPT
                    !.fn = "getPackingStatus",
                    !.status = getPackingStatus(probe.order,
                                   IF probe.flag THEN {LineOf(probe.order)} ELSE {})]
    /\ UNCHANGED <<db, last, nops, tx>>

NextClassify == Classify

SpecClassify == InitClassify /\ [][NextClassify]_vars

(***************************************************************************)
(* The tag generation of plan-order on its own: a queue that holds any of  *)
(* the tags below, and a line of load A or of load AB without a tag.       *)
(***************************************************************************)
TagPool ==
    { LoadA \o <<"0", "0", "1">>, LoadA \o <<"0", "0", "2">>, LoadA \o <<"0", "1", "0">>,
      LoadA \o <<"9", "9", "9">>, LoadA \o <<"1", "0", "0", "0">>,
      LoadAB \o <<"0", "0", "1">>, LoadAB \o <<"0", "0", "2">> }

\* queue rows that carry the tags of T (the generation reads the tag column only)
RowsWithTags(T) == {QueueRow(1, t, <<0, "">>, 1) : t \in T}

InitTag ==
    /\ db = InitialDb
    /\ last = Done("none", NoArgs, EmptyDb, TRUE)
    /\ nops = 0
    /\ tx = NoTx
    /\ probe \in {[NoProbe EXCEPT !.fn = "tags", !.queue = RowsWithTags(T), !.loadName = n] :
                      T \in SUBSET TagPool, n \in LoadNames}

GenerateTag ==
    /\ probe.fn = "tags"
    /\ \E t \in GenerateTags(probe.queue, probe.loadName) :
          probe' = [probe EXCEPT !.fn = "generateTag", !.tag = t]
    /\ UNCHANGED <<db, last, nops, tx>>

NextTagSpec == GenerateTag

SpecTag == InitTag /\ [][NextTagSpec]_vars

(***************************************************************************)
(* The server of part_000: loads, lines, priorities and its reconcile.     *)
(* POST /api/loads and POST /api/priorities are the handlers of part_001,  *)
(* word for word.                                                          *)
(***************************************************************************)
MaxCalls == 3

\* requested 10, nothing assigned, shipped 5, one box per pallet
PartShippedRow(line, estado) == OrderRow(line, <<"1", "0">>, <<"0">>, <<"5">>, <<"1">>, estado)

\* the snapshots of this server: order 1 open or closed with line S1 pending,
\* done, shipped in full or in part and line S2 pending, done or not listed, in
\* both orders of the two lines; order 2 open, pending, done or not listed
SnapshotsByMap ==
    {<< >>} \cup
    UNION {{ab \o c :
               ab \in UNION {{<<a>> \o b, b \o <<a>>} :
                                a \in {PendingRow(<<1, "S1">>, e), DoneRow(<<1, "S1">>, e),
                                       ShippedRow(<<1, "S1">>, e), PartShippedRow(<<1, "S1">>, e)},
                                b \in {<< >>, <<DoneRow(<<1, "S2">>, e)>>,
                                       <<PendingRow(<<1, "S2">>, e)>>}},
               c \in {<< >>, <<PendingRow(<<2, "S1">>, "abierta")>>,
                      <<DoneRow(<<2, "S1">>, "abierta")>>}} :
           e \in {"abierta", "cerrada"}}

ResponsesByMap == {OkResponse(rows) : rows \in SnapshotsByMap} \cup BadResponses

LineNameLists == {<< >>, <<"L1">>, <<"L1", "L2">>}

ReadyByMap == last.op = "none" /\ nops < MaxCalls

ReconcileByMap ==
    /\ ReadyByMap
    /\ \E resp \in ResponsesByMap, keysMatch \in BOOLEAN :
        \E out \in reconcileByMap(db, <<resp, RetryAnswer>>, keysMatch) :
            Step("reconcileByMap",
                 [NoArgs EXCEPT !.answers = <<resp, RetryAnswer>>, !.fetches = out.fetches],
                 out)

PostLines ==
    /\ ReadyByMap
    /\ \E key \in Lines \cup {NoLine}, names \in LineNameLists :
        Step("postLines", [NoArgs EXCEPT !.line = key], postLines(db, key, names))

ReconcileAutonomous ==
    /\ ReadyByMap
    /\ \E resp \in ResponsesByMap, numbered \in BOOLEAN :
        \E out \in reconcileAutonomous(db, <<resp, RetryAnswer>>, numbered) :
            Step("reconcileAutonomous",
                 [NoArgs EXCEPT !.answers = <<resp, RetryAnswer>>, !.fetches = out.fetches],
                 out)

PostLoadsByMap == ReadyByMap /\ PostLoads

PostPrioritiesByMap == ReadyByMap /\ PostPriorities

NextByMap ==
    \/ ReconcileByMap
    \/ ReconcileAutonomous
    \/ PostLines
    \/ PostLoadsByMap
    \/ PostPrioritiesByMap
    \/ Settle

SpecByMap == Init /\ [][NextByMap]_vars

(***************************************************************************)
(* Two plan-order requests at once (part_001, 299-363), each on its own    *)
(* client, statement by statement.  The store runs them READ COMMITTED: a  *)
(* statement sees the committed rows and the rows its own transaction      *)
(* wrote; an INSERT whose unique key is held by a row another open         *)
(* transaction wrote waits for that transaction to end.                    *)
(*   tx.sessions[s]  the request of client s: its arguments, the outfeed   *)
(*                   it is at (pc), the max_seq it read, the rows it wrote *)
(*   tx.overlapped   a request began while the other was open              *)
(***************************************************************************)
MaxRequests == 2

Sessions == {1, 2}

Idle ==
    [op |-> "idle", line |-> <<0, "">>, outfeedIds |-> << >>, newTag |-> NoTag,
     pc |-> 0, phase |-> "select", max_seq |-> 0, written |-> {}]

\* the tables the two requests find: the orders in one load, or in two
RaceDbs == {InitialDb, [InitialDb EXCEPT !.loads = (1 :> LoadA) @@ (2 :> LoadAB)]}

InitRace ==
    /\ db \in RaceDbs
    /\ last = Done("none", NoArgs, EmptyDb, TRUE)
    /\ nops = 0
    /\ tx = [sessions |-> [s \in Sessions |-> Idle], overlapped |-> FALSE]
    /\ probe = NoProbe

\* what a statement that reads only its own transaction's rows would see
VisibleOwnOnly(committed, own) == own

\* the rows a statement of a transaction sees
Visible(committed, own) == committed \cup own

Other(s) == CHOOSE t \in Sessions : t # s

\* the row collides on a unique index with a row the other open transaction wrote
HeldByOther(s, row) ==
    \E r \in tx.sessions[Other(s)].written :
        /\ r.outfeed_id = row.outfeed_id
        /\ RowLine(r) = RowLine(row) \/ r.tag = row.tag

\* BEGIN, the load lookup and the tag resolution (305-337)
RaceBegin(s) ==
    /\ tx.sessions[s].op = "idle"
    /\ nops < MaxRequests
    /\ \E line \in Lines, ids \in {<<1>>, <<2>>, <<1, 2>>} :
        /\ LoadLookup(db, line[1]).found
        /\ \E tag \in ResolveTags(Visible(db.outfeed_queue, {}), line,
                                   LoadLookup(db, line[1]).load_name) :
              tx' = [tx EXCEPT !.sessions[s] =
                                   [Idle EXCEPT !.op = "planOrder", !.line = line,
                                                !.outfeedIds = ids, !.newTag = tag, !.pc = 1],
                               !.overlapped = @ \/ tx.sessions[Other(s)].op # "idle"]
    /\ nops' = nops + 1
    /\ UNCHANGED <<db, last, probe>>

\* SELECT COALESCE(MAX(sequence), 0) of the outfeed the loop is at (347-348)
RaceSelectMax(s) ==
    LET me == tx.sessions[s]
    IN  /\ me.op = "planOrder" /\ me.pc <= Len(me.outfeedIds) /\ me.phase = "select"
        /\ tx' = [tx EXCEPT !.sessions[s].phase = "insert",
                            !.sessions[s].max_seq =
                                MaxSequence(Visible(db.outfeed_queue, me.written),
                                            me.outfeedIds[me.pc])]
        /\ UNCHANGED <<db, last, nops, probe>>

\* the INSERT at max_seq + 1 (349); a unique violation makes the handler roll back
RaceInsert(s) ==
    LET me == tx.sessions[s]
        row == QueueRow(me.outfeedIds[me.pc], me.newTag, me.line, me.max_seq + 1)
        out == InsertOrNothing(Visible(db.outfeed_queue, me.written), row)
    IN  /\ me.op = "planOrder" /\ me.pc <= Len(me.outfeedIds) /\ me.phase = "insert"
        /\ ~HeldByOther(s, row)
        /\ tx' = IF out.err
                 THEN [tx EXCEPT !.sessions[s] = Idle]
                 ELSE [tx EXCEPT !.sessions[s].phase = "select",
                                 !.sessions[s].pc = me.pc + 1,
                                 !.sessions[s].written = out.queue \ db.outfeed_queue]
        /\ UNCHANGED <<db, last, nops, probe>>

\* COMMIT after the loop (353)
RaceCommit(s) ==
    LET me == tx.sessions[s]
    IN  /\ me.op = "planOrder" /\ me.pc > Len(me.outfeedIds)
        /\ db' = [db EXCEPT !.outfeed_queue = db.outfeed_queue \cup me.written]
        /\ tx' = [tx EXCEPT !.sessions[s] = Idle]
        /\ UNCHANGED <<last, nops, probe>>

NextRace ==
    \/ \E s \in Sessions : RaceBegin(s)
    \/ \E s \in Sessions : RaceSelectMax(s)
    \/ \E s \in Sessions : RaceInsert(s)
    \/ \E s \in Sessions : RaceCommit(s)

SpecRace == InitRace /\ [][NextRace]_vars

(***************************************************************************)
(* The file-backed POST /api/loads (part_001, 88-110) with two requests at *)
(* once.  The handler awaits the read of loads.json, applies its updates   *)
(* to the object it read, and awaits the write; the other request runs at  *)
(* each await.  fs.writeFile opens the file truncating it and then writes: *)
(* a read in between finds a text that JSON.parse refuses, and data        *)
(* written over what another writer put there since the open may leave a   *)
(* text that is no JSON either.                                            *)
(*   db.loads        the object in loads.json when tx.file = "json"        *)
(*   tx.file         "missing", "truncated", "json" or "corrupt"           *)
(*   tx.sessions[s]  the request s: its updates, where it is (phase), the  *)
(*                   object it holds, and its answer                       *)
(***************************************************************************)
MaxPosts == 2

IdleFile ==
    [op |-> "idle", updates |-> << >>, phase |-> "none", loads |-> EmptyMap,
     content |-> EmptyMap, ok |-> FALSE]

InitFile ==
    /\ \E f \in {"missing", "json"} :
          /\ db = (IF f = "json" THEN InitialDb ELSE [InitialDb EXCEPT !.loads = EmptyMap])
          /\ tx = [sessions |-> [s \in Sessions |-> IdleFile], file |-> f]
    /\ last = Done("none", NoArgs, EmptyDb, TRUE)
    /\ nops = 0
    /\ probe = NoProbe

\* the request arrives with a valid body (89-92)
FileBegin(s) ==
    /\ tx.sessions[s].op = "idle"
    /\ nops < MaxPosts
    /\ \E updates \in LoadUpdateLists :
          tx' = [tx EXCEPT !.sessions[s] =
                              [IdleFile EXCEPT !.op = "postLoads", !.updates = updates,
                                               !.phase = "read"]]
    /\ nops' = nops + 1
    /\ UNCHANGED <<db, last, probe>>

\* readJsonFile (43-55): the text parsed, ENOENT answered by writing the default,
\* any other error thrown to the handler, which answers 500
FileRead(s) ==
    LET me == tx.sessions[s]
    IN  /\ me.op = "postLoads" /\ me.phase = "read"
        /\ tx' = IF tx.file = "json"
                 THEN [tx EXCEPT !.sessions[s].phase = "open",
                                 !.sessions[s].loads = db.loads,
                                 !.sessions[s].content = ApplyLoadUpdates(db.loads, me.updates)]
                 ELSE IF tx.file = "missing"
                 THEN [tx EXCEPT !.sessions[s].phase = "openDefault"]
                 ELSE [tx EXCEPT !.sessions[s].op = "answered", !.sessions[s].phase = "none"]
        /\ UNCHANGED <<db, last, nops, probe>>

\* fs.writeFile, first part: the file is opened for writing and is empty
FileOpen(s) ==
    LET me == tx.sessions[s]
    IN  /\ me.op = "postLoads" /\ me.phase \in {"open", "openDefault"}
        /\ tx' = [tx EXCEPT !.file = "truncated",
                            !.sessions[s].phase = IF me.phase = "open" THEN "data"
                                                  ELSE "dataDefault"]
        /\ UNCHANGED <<db, last, nops, probe>>

\* what the file holds after text is written from its start: the text, or a
\* text that is no JSON when another writer's data was there
Written(content) ==
    IF tx.file = "truncated" THEN {[file |-> "json", loads |-> content]}
    ELSE {[file |-> "json", loads |-> content], [file |-> "corrupt", loads |-> EmptyMap]}

\* readJsonFile, ENOENT branch (49-51): the default is written and returned
FileWriteDefault(s) ==
    LET me == tx.sessions[s]
    IN  /\ me.op = "postLoads" /\ me.phase = "dataDefault"
        /\ \E w \in Written(EmptyMap) :
              /\ db' = [db EXCEPT !.loads = w.loads]
              /\ tx' = [tx EXCEPT !.file = w.file,
                                  !.sessions[s].phase = "open",
                                  !.sessions[s].content = ApplyLoadUpdates(EmptyMap, me.updates)]
        /\ UNCHANGED <<last, nops, probe>>

\* fs.writeFile of the updated object, second part, and the answer 200 (105-106)
FileWrite(s) ==
    LET me == tx.sessions[s]
    IN  /\ me.op = "postLoads" /\ me.phase = "data"
        /\ \E w \in Written(me.content) :
              /\ db' = [db EXCEPT !.loads = w.loads]
              /\ tx' = [tx EXCEPT !.file = w.file,
                                  !.sessions[s].op = "answered",
                                  !.sessions[s].phase = "none",
                                  !.sessions[s].ok = TRUE]
        /\ UNCHANGED <<last, nops, probe>>

NextFile ==
    \/ \E s \in Sessions : FileBegin(s)
    \/ \E s \in Sessions : FileRead(s)
    \/ \E s \in Sessions : FileOpen(s)
    \/ \E s \in Sessions : FileWriteDefault(s)
    \/ \E s \in Sessions : FileWrite(s)

SpecFile == InitFile /\ [][NextFile]_vars

(***************************************************************************)
(* The board is planned, then the feed stays as it is and the client only  *)
(* calls reconcile (the periodic call of the page).  tx.op = "polling"     *)
(* marks that second period and tx.args.answers holds the feed's answer.   *)
(***************************************************************************)
MaxPlanned == 1

PlanningReady == Ready /\ nops < MaxPlanned

PlanOrderFirst == PlanningReady /\ PlanOrder

UnplanOrderFirst == PlanningReady /\ UnplanOrder

UpdateQueueOrderFirst == PlanningReady /\ UpdateQueueOrder

\* the feeds of the second period: open orders whose listed lines are all done
\* or shipped
PollingFeeds ==
    {rows \in Snapshots :
        \A i \in 1..Len(rows) :
            /\ rows[i].estado_marketer_order = "abierta"
            /\ IsDoneOrShipped(getPackingStatus(rows[i], {}))}

\* from here on the feed answers the same snapshot and only reconcile is called
StartPolling ==
    /\ last.op = "none" /\ tx.op = "none"
    /\ \E rows \in PollingFeeds :
          tx' = [NoTx EXCEPT !.op = "polling",
                             !.args = [NoArgs EXCEPT !.answers = <<OkResponse(rows), RetryAnswer>>]]
    /\ UNCHANGED <<db, last, nops, probe>>

\* one more call of POST /api/reconcile
Poll ==
    /\ tx.op = "polling"
    /\ \E out \in reconcile(db, tx.args.answers) : db' = out.db
    /\ UNCHANGED <<last, nops, tx, probe>>

NextPolling ==
    \/ PlanOrderFirst
    \/ UnplanOrderFirst
    \/ UpdateQueueOrderFirst
    \/ Settle
    \/ StartPolling
    \/ Poll

\* the page keeps calling: a reconcile that can change the tables is sent again
SpecPolling == Init /\ [][NextPolling]_vars /\ WF_vars(Poll)

(***************************************************************************)
(* A planning session followed by one reconcile: the planning, priority    *)
(* and outfeed-status handlers take the requests of Spec, and the page's   *)
(* next reconcile comes after them, whatever their number.                 *)
(***************************************************************************)
ReconcileLast ==
    /\ last.op = "none" /\ tx.op = "none" /\ nops <= MaxOps
    /\ \E resp \in Responses :
        \E out \in reconcile(db, <<resp, RetryAnswer>>) :
            /\ nops' = MaxOps + 1
            /\ db' = out.db
            /\ last' = Done("reconcile",
                            [NoArgs EXCEPT !.answers = <<resp, RetryAnswer>>,
                                           !.fetches = out.fetches, !.state = out.state],
                            db, out.ok)
            /\ UNCHANGED <<tx, probe>>

NextSession ==
    \/ PlanOrder
    \/ UnplanOrder
    \/ UpdateQueueOrder
    \/ PostPriorities
    \/ SetOutfeedStatus
    \/ Settle
    \/ ReconcileLast

SpecSession == Init /\ [][NextSession]_vars

(***************************************************************************)
(* A fixed feed polled again and again: after some planning the feed       *)
(* answers one snapshot, and POST /api/reconcile is the only request.  tx  *)
(* keeps the answers of the feed, the tables when the polling began (pre), *)
(* the tables before the last run (work) and the number of runs (pc).      *)
(***************************************************************************)
MaxBefore == 2

MaxRuns == 4

BeforeRuns == Ready /\ nops < MaxBefore

PlanOrderBefore == BeforeRuns /\ PlanOrder

UpdateQueueOrderBefore == BeforeRuns /\ UpdateQueueOrder

PostPrioritiesBefore == BeforeRuns /\ PostPriorities

SetOutfeedStatusBefore == BeforeRuns /\ SetOutfeedStatus

StartRuns ==
    /\ last.op = "none" /\ tx.op = "none"
    /\ \E rows \in Snapshots :
          tx' = [NoTx EXCEPT !.op = "runs",
                             !.args = [NoArgs EXCEPT !.answers = <<OkResponse(rows), RetryAnswer>>],
                             !.pre = db, !.work = db]
    /\ UNCHANGED <<db, last, nops, probe>>

\* one more POST /api/reconcile with the same feed
Run ==
    /\ tx.op = "runs" /\ tx.pc < MaxRuns
    /\ \E out \in reconcile(db, tx.args.answers) : db' = out.db
    /\ tx' = [tx EXCEPT !.work = db, !.pc = @ + 1]
    /\ UNCHANGED <<last, nops, probe>>

NextRuns ==
    \/ PlanOrderBefore
    \/ UpdateQueueOrderBefore
    \/ PostPrioritiesBefore
    \/ SetOutfeedStatusBefore
    \/ Settle
    \/ StartRuns
    \/ Run

SpecRuns == Init /\ [][NextRuns]_vars

(***************************************************************************)
(* Properties.  pre is the content of the tables before the request that   *)
(* was answered last, db their content after it.                           *)
(***************************************************************************)
pre == last.pre

Answered(op) == last.op = op /\ last.ok

\* the snapshot a successful reconcile worked on
Snapshot == last.args.answers[1].elems[1].data

SequencesOf(queue, o) == {r.sequence : r \in RowsOf(queue, o)}

Contiguous(queue, o) == SequencesOf(queue, o) = 1..Cardinality(RowsOf(queue, o))

\* the rows of an outfeed without their sequence
EntriesOf(queue, o) == {Entry(r.tag, RowLine(r)) : r \in RowsOf(queue, o)}

\* the order of a snapshot classified as the reconcile did
StatusIn(d, order) == getPackingStatus(order, IsBeingPackedSet(d))

ShippedQuantity(order) == ParseFloatOr(order.cantidad_despachada, 0)

\* C1: in every reachable state the sequence values of each outfeed's rows are
\* exactly 1..N, N the number of rows of the outfeed.
C1_SequencesContiguous == \A o \in Outfeeds : Contiguous(db.outfeed_queue, o)

\* C2: a second reconcile with the same snapshot leaves the tables as the first
\* left them.
C2_ReconcileIdempotent ==
    Answered("reconcile") =>
        \A out \in reconcile(db, last.args.answers) : out.db = db

\* C3: reconcile deletes all Load rows of a load that has orders in the snapshot
\* if and only if one of those orders has shipped quantity > 0 or all of them
\* are closed.
C3_LetterIffShippedOrAllClosed ==
    Answered("reconcile") =>
        \A n \in LoadNames :
            LET members == OrdersInLoad(pre, Snapshot, n)
                removed == \A o \in DOMAIN db.loads : db.loads[o] # n
            IN  members # {} =>
                  (removed <=>
                     \/ \E i \in members : ShippedQuantity(Snapshot[i]) > 0
                     \/ \A i \in members : Snapshot[i].estado_marketer_order = "cerrada")

\* the loads C4 is about: orders in the snapshot, all of them done or shipped,
\* none with shipped quantity > 0, none closed
DoneNotShipped(d, orders, n) ==
    LET members == OrdersInLoad(d, orders, n)
    IN  /\ members # {}
        /\ \A i \in members :
              /\ IsDoneOrShipped(StatusIn(d, orders[i]))
              /\ ShippedQuantity(orders[i]) = 0
              /\ orders[i].estado_marketer_order # "cerrada"

\* C4: after a reconcile, a load whose orders are all done, none shipped and none
\* closed, has no priority rank and still has every Load row it had.
C4_DoneLoadKeepsLetter ==
    Answered("reconcile") =>
        \A n \in LoadNames :
            DoneNotShipped(pre, Snapshot, n) =>
                /\ n \notin DOMAIN db.load_priorities
                /\ \A o \in DOMAIN pre.loads :
                      pre.loads[o] = n => o \in DOMAIN db.loads /\ db.loads[o] = n

\* a reconcile released the priority of a ranked load and kept its letter
C4_Witness ==
    /\ Answered("reconcile")
    /\ \E n \in LoadNames :
          /\ DoneNotShipped(pre, Snapshot, n)
          /\ n \in DOMAIN pre.load_priorities
          /\ \E o \in DOMAIN db.loads : db.loads[o] = n

\* the load names with a rank that the pass released neither way
KeptNames == DOMAIN pre.load_priorities
                \ (loadsToReleaseLetter(pre, Snapshot) \cup loadsToReleasePriority(pre, Snapshot))

\* C5: after a reconcile the ranked load names are those not released in the pass,
\* their ranks are exactly 1..N, and a lower rank before is a lower rank after.
C5_RanksDenseOrderKept ==
    Answered("reconcile") =>
        /\ DOMAIN db.load_priorities = KeptNames
        /\ {db.load_priorities[n] : n \in KeptNames} = 1..Cardinality(KeptNames)
        /\ \A a, b \in KeptNames :
              pre.load_priorities[a] < pre.load_priorities[b]
                  => db.load_priorities[a] < db.load_priorities[b]

\* a reconcile released a ranked load and re-ranked two others
C5_Witness ==
    /\ Answered("reconcile")
    /\ Cardinality(KeptNames) >= 2
    /\ KeptNames # DOMAIN pre.load_priorities
    /\ \E n \in KeptNames : db.load_priorities[n] # pre.load_priorities[n]

\* C6: all queue rows of one line carry the same tag.
C6_OneTagPerLine ==
    \A r1, r2 \in db.outfeed_queue : RowLine(r1) = RowLine(r2) => r1.tag = r2.tag

\* the rows of outfeed o at sequence 1 whose line the snapshot has done or shipped
DoneHeads(d, orders, o) == {r \in RetiredHeads(d, orders) : r.outfeed_id = o}

\* a < b in the sequence order of queue q, for two entries of outfeed o
Before(q, o, a, b) ==
    \E x, y \in RowsOf(q, o) :
        /\ Entry(x.tag, RowLine(x)) = a
        /\ Entry(y.tag, RowLine(y)) = b
        /\ x.sequence < y.sequence

\* C7 as stated: an outfeed whose row at sequence 1 is done or shipped loses that
\* row, and its other rows, all of them, end at sequences 1..N-1 in their order.
C7_HeadRemovedRestAtOneToNMinusOne ==
    Answered("reconcile") =>
        \A o \in Outfeeds :
            DoneHeads(pre, Snapshot, o) # {} =>
                LET N == Cardinality(RowsOf(pre.outfeed_queue, o))
                IN  /\ \A h \in DoneHeads(pre, Snapshot, o) :
                          Entry(h.tag, RowLine(h)) \notin EntriesOf(db.outfeed_queue, o)
                    /\ Cardinality(RowsOf(db.outfeed_queue, o)) = N - 1
                    /\ SequencesOf(db.outfeed_queue, o) = 1..(N - 1)

\* C7 amended: an outfeed whose row at sequence 1 is done or shipped loses every
\* row whose tag is retired in the pass (the tag of a done or shipped row at
\* sequence 1 of any outfeed), and the rows it keeps end at sequences 1..M, M
\* their number, in their prior order.
C7_RetiredRemovedRestContiguous ==
    Answered("reconcile") =>
        \A o \in Outfeeds :
            DoneHeads(pre, Snapshot, o) # {} =>
                LET retired == {h.tag : h \in RetiredHeads(pre, Snapshot)}
                    kept == {e \in EntriesOf(pre.outfeed_queue, o) : e.tag \notin retired}
                IN  /\ EntriesOf(db.outfeed_queue, o) = kept
                    /\ Cardinality(RowsOf(db.outfeed_queue, o)) = Cardinality(kept)
                    /\ Contiguous(db.outfeed_queue, o)
                    /\ \A a, b \in kept :
                          Before(pre.outfeed_queue, o, a, b) => Before(db.outfeed_queue, o, a, b)

\* a reconcile retired the head of an outfeed and moved a row up to sequence 1
C7_Witness ==
    /\ Answered("reconcile")
    /\ \E o \in Outfeeds :
          /\ DoneHeads(pre, Snapshot, o) # {}
          /\ \E r \in RowsOf(db.outfeed_queue, o), x \in RowsOf(pre.outfeed_queue, o) :
                /\ r.sequence = 1
                /\ x.tag = r.tag
                /\ x.sequence > 1

\* the outfeeds a plan-order request names
Targets == {last.args.outfeedIds[i] : i \in 1..Len(last.args.outfeedIds)}

\* C8: a successful high-priority planOrder puts the line, in each target outfeed
\* that did not hold it, at sequence 1, and every row that outfeed had is one
\* sequence further.
C8_HighPriorityPrepends ==
    (Answered("planOrder") /\ last.args.isHighPriority) =>
        \A o \in Targets :
            (\A r \in RowsOf(pre.outfeed_queue, o) : RowLine(r) # last.args.line) =>
                /\ QueueRow(o, last.args.newTag, last.args.line, 1) \in db.outfeed_queue
                /\ RowsOf(db.outfeed_queue, o) =
                      {QueueRow(o, last.args.newTag, last.args.line, 1)}
                        \cup {[r EXCEPT !.sequence = r.sequence + 1] :
                                 r \in RowsOf(pre.outfeed_queue, o)}

Complete(op, args, d) ==
    CASE op = "planOrder" ->
            {out.db : out \in {x \in planOrder(d, args.line, args.outfeedIds, args.isHighPriority) :
                                  x.ok /\ x.newTag = args.newTag}}
      [] op = "unplanOrder" ->
            {out.db : out \in {x \in unplanOrder(d, args.tag, args.outfeedId) : x.ok}}
      [] op = "updateQueueOrder" ->
            {out.db : out \in {x \in {updateQueueOrder(d, args.fromOutfeedId, args.toOutfeedId,
                                                       args.tag, args.entries)} : x.ok}}
      [] op = "reconcile" ->
            {out.db : out \in {x \in reconcile(d, args.answers) : x.ok}}
      [] OTHER -> {}

\* C10: while a reconcile, planOrder, unplanOrder or updateQueueOrder call is
\* under way every other caller reads the tables as they were before it; a call
\* that failed at any statement leaves the tables as they were before it; a call
\* that succeeded leaves them with all its writes applied.
C10_AllOrNothing ==
    /\ tx.op \in TxOps => db = tx.pre
    /\ last.op \in TxOps =>
          IF last.ok THEN db \in Complete(last.op, last.args, pre) ELSE db = pre

\* a call failed after writes that changed the tables of its transaction, and
\* the committed tables are those from before the call
C10_Witness ==
    /\ last.op \in TxOps
    /\ ~last.ok
    /\ tx.op = "rolledBack"
    /\ tx.pc >= 1
    /\ tx.work # tx.pre
    /\ db = pre

\* C11: a planOrder request with its fields, for an order without a Load row,
\* is answered with the no-load-assigned error and no tag, and leaves every queue
\* row as it was.
C11_NoLoadNoChange ==
    (/\ last.op = "planOrder"
     /\ Len(last.args.outfeedIds) > 0
     /\ last.args.line[1] \notin DOMAIN pre.loads) =>
        /\ ~last.ok
        /\ last.args.error = "NoLoadAssigned"
        /\ last.args.newTag = NoTag
        /\ db = pre

\* a high-priority planOrder for an order without a Load row was refused while
\* its target outfeed held rows
C11_Witness ==
    /\ last.op = "planOrder"
    /\ last.args.isHighPriority
    /\ last.args.error = "NoLoadAssigned"
    /\ last.args.line[1] \notin DOMAIN pre.loads
    /\ \E o \in Targets : RowsOf(db.outfeed_queue, o) # {}

\* C12: every stored outfeed status is RUNNING or PAUSED; a setOutfeedStatus
\* call with another value is refused and changes nothing; an accepted call
\* stores the value for the named outfeed and changes nothing else.
C12_StatusRunningOrPaused ==
    /\ \A o \in DOMAIN db.outfeed_status : db.outfeed_status[o] \in {"RUNNING", "PAUSED"}
    /\ last.op = "setOutfeedStatus" =>
          IF last.args.status \notin {"RUNNING", "PAUSED"}
          THEN ~last.ok /\ db = pre
          ELSE /\ last.ok
               /\ DOMAIN db.outfeed_status = DOMAIN pre.outfeed_status \cup {last.args.outfeedId}
               /\ db.outfeed_status[last.args.outfeedId] = last.args.status
               /\ \A o \in DOMAIN pre.outfeed_status :
                     o # last.args.outfeedId => db.outfeed_status[o] = pre.outfeed_status[o]
               /\ [db EXCEPT !.outfeed_status = pre.outfeed_status] = pre

\* a call with another value was refused for an outfeed that has a stored status
C12_Witness ==
    /\ last.op = "setOutfeedStatus"
    /\ last.args.status \notin {"RUNNING", "PAUSED"}
    /\ ~last.ok
    /\ last.args.outfeedId \in DOMAIN db.outfeed_status

\* the quantity a field of an order stands for (0 when absent or no number)
Quantity(v) == ParseFloatOr(v, 0)

\* the rules of the classifier, the first that matches; with a positive number
\* of boxes per pallet (1 when the field is absent or zero) assigned pallets are
\* at least the requested pallets exactly when assigned >= requested
FirstMatchingRule(order, isBeingPacked) ==
    CASE Quantity(order.cantidad_despachada) > 0 -> "shipped"
      [] /\ Quantity(order.cantidad_despachada) <= 0
         /\ Quantity(order.cantidad_solicitada) > 0
         /\ ParseFloatOr(order.cajas_por_pallet, 1) > 0
         /\ Quantity(order.cantidad_asignada) >= Quantity(order.cantidad_solicitada) -> "done"
      [] OTHER -> IF isBeingPacked THEN "being_packed"
                  ELSE IF Quantity(order.cantidad_asignada) > 0 THEN "partially"
                  ELSE "pending"

\* C13: getPackingStatus gives every order and flag the status of the first
\* matching rule; shipped > 0 gives shipped whatever is assigned, and
\* requested = 0 never gives done.
C13_FirstMatchingRule ==
    probe.fn = "getPackingStatus" =>
        /\ probe.status = FirstMatchingRule(probe.order, probe.flag)
        /\ Quantity(probe.order.cantidad_despachada) > 0 => probe.status = "shipped"
        /\ Quantity(probe.order.cantidad_solicitada) = 0 => probe.status # "done"

\* an order with shipped > 0 and assigned >= requested > 0 was classified
C13_Witness ==
    /\ probe.fn = "getPackingStatus"
    /\ Quantity(probe.order.cantidad_despachada) > 0
    /\ Quantity(probe.order.cantidad_solicitada) > 0
    /\ Quantity(probe.order.cantidad_asignada) >= Quantity(probe.order.cantidad_solicitada)
    /\ probe.status = "shipped"

\* the rows an unplanOrder request asks to delete
Unplanned(queue, tag, outfeedId) ==
    {r \in queue : r.tag = tag /\ (outfeedId = NoOutfeed \/ r.outfeed_id = outfeedId)}

\* the rows of outfeed o in queue after are those of before without the rows of
\* gone, at sequences 1..N in the order they had
RenumberedWithout(before, after, o, gone) ==
    /\ EntriesOf(after, o) = EntriesOf(before \ gone, o)
    /\ Cardinality(RowsOf(after, o)) = Cardinality(RowsOf(before \ gone, o))
    /\ Contiguous(after, o)
    /\ \A a, b \in EntriesOf(after, o) : Before(before, o, a, b) => Before(after, o, a, b)

\* C14: a successful unplanOrder deletes the rows of the tag (of the named
\* outfeed, or of all outfeeds), and every outfeed that lost a row has its other
\* rows at sequences 1..N in their prior order.
C14_UnplanRenumbers ==
    Answered("unplanOrder") =>
        LET gone == Unplanned(pre.outfeed_queue, last.args.tag, last.args.outfeedId)
        IN  /\ \A o \in Outfeeds : EntriesOf(db.outfeed_queue, o) = EntriesOf(pre.outfeed_queue \ gone, o)
            /\ \A o \in {r.outfeed_id : r \in gone} :
                  RenumberedWithout(pre.outfeed_queue, db.outfeed_queue, o, gone)

\* the rows whose tag a reconcile retires
Retired(d, orders) == {r \in d.outfeed_queue : r.tag \in doneTagsToDelete(d, orders)}

\* C15: after a reconcile no row carries a retired tag, and every outfeed that
\* held such a row, at sequence 1 or further down, has its other rows at
\* sequences 1..N in their prior order.
C15_RetiredEverywhereRenumbered ==
    Answered("reconcile") =>
        LET gone == Retired(pre, Snapshot)
        IN  /\ \A r \in db.outfeed_queue : r.tag \notin doneTagsToDelete(pre, Snapshot)
            /\ \A o \in {r.outfeed_id : r \in gone} :
                  RenumberedWithout(pre.outfeed_queue, db.outfeed_queue, o, gone)

\* C16: after a successful updateQueueOrder the tags of the destination outfeed
\* are the listed tags, the i-th at sequence i, and a tag moved from another
\* outfeed is no longer in that outfeed.
C16_DestinationIsTheList ==
    Answered("updateQueueOrder") =>
        LET to == last.args.toOutfeedId
            from == last.args.fromOutfeedId
            list == last.args.entries
        IN  /\ {<<r.tag, r.sequence>> : r \in RowsOf(db.outfeed_queue, to)} =
                  {<<list[i].tag, i>> : i \in 1..Len(list)}
            /\ (from # NoOutfeed /\ from # to) =>
                  \A r \in RowsOf(db.outfeed_queue, from) : r.tag # last.args.tag

\* a tag of the load: the load name followed by digits only
BelongsTo(tag, loadName) ==
    /\ StartsWith(tag, loadName)
    /\ Len(tag) > Len(loadName)
    /\ \A i \in (Len(loadName) + 1)..Len(tag) : IsDigit(tag[i])

\* the numeric suffixes of the queued tags of the load
Suffixes(queue, loadName) ==
    {DigitsValue(SubSeq(r.tag, Len(loadName) + 1, Len(r.tag))) :
        r \in {x \in queue : BelongsTo(x.tag, loadName)}}

\* the load name followed by n in three digits or more, n one more than the
\* highest suffix (1 without any)
TagAfterHighest(queue, loadName) ==
    LET S == Suffixes(queue, loadName)
        n == IF S = {} THEN 1 ELSE (CHOOSE m \in S : \A x \in S : x <= m) + 1
    IN  loadName \o PadStart(ToDigits(n), 3)

\* C17: the tag generated for a load is the load name followed by n in three
\* digits, n one more than the highest numeric suffix of the queued tags of the
\* load, also next to tags of a load whose name starts with this load's name
\* and with suffixes beyond 999.
C17_TagAfterHighestSuffix ==
    probe.fn = "generateTag" => probe.tag = TagAfterHighest(probe.queue, probe.loadName)

\* the target outfeeds that held the line before the request
AlreadyIn(queue, line, targets) ==
    {o \in targets : \E r \in RowsOf(queue, o) : RowLine(r) = line}

\* C18: a successful planOrder leaves every target outfeed that already held
\* the line with the rows and sequences it had, with and without high priority.
C18_ReplanChangesNothing ==
    Answered("planOrder") =>
        \A o \in AlreadyIn(pre.outfeed_queue, last.args.line, Targets) :
            RowsOf(db.outfeed_queue, o) = RowsOf(pre.outfeed_queue, o)

\* the largest sequence of an outfeed, 0 for an empty one
Largest(queue, o) ==
    IF SequencesOf(queue, o) = {} THEN 0
    ELSE CHOOSE m \in SequencesOf(queue, o) : \A x \in SequencesOf(queue, o) : x <= m

\* the target outfeeds of the request that did not hold the line before it
NewTargets == Targets \ AlreadyIn(pre.outfeed_queue, last.args.line, Targets)

\* C19: a successful planOrder without high priority adds to each target outfeed
\* that did not hold the line one row for it, at the largest sequence the outfeed
\* had plus one (1 for an empty outfeed), and keeps every row the outfeed had.
C19_AppendAfterLargest ==
    (Answered("planOrder") /\ ~last.args.isHighPriority) =>
        \A o \in NewTargets :
            \E r \in RowsOf(db.outfeed_queue, o) :
                /\ RowLine(r) = last.args.line
                /\ r.tag = last.args.newTag
                /\ r.sequence = Largest(pre.outfeed_queue, o) + 1
                /\ RowsOf(db.outfeed_queue, o) = RowsOf(pre.outfeed_queue, o) \cup {r}
                /\ r \notin pre.outfeed_queue

\* an append to an outfeed that held rows, the largest sequence above their number
C19_Witness ==
    /\ Answered("planOrder") /\ ~last.args.isHighPriority
    /\ \E o \in NewTargets :
           /\ Largest(pre.outfeed_queue, o) > Cardinality(RowsOf(pre.outfeed_queue, o))
           /\ \E r \in RowsOf(db.outfeed_queue, o) :
                  RowLine(r) = last.args.line /\ r.sequence = Largest(pre.outfeed_queue, o) + 1

\* a load with orders in the snapshot that meets the shipped/closed trigger (one
\* order with shipped quantity > 0, or all closed) and whose orders are all done
\* or shipped
TriggeredAndDone(d, orders, n) ==
    LET members == OrdersInLoad(d, orders, n)
    IN  /\ members # {}
        /\ \/ \E i \in members : ShippedQuantity(orders[i]) > 0
           \/ \A i \in members : orders[i].estado_marketer_order = "cerrada"
        /\ \A i \in members : IsDoneOrShipped(StatusIn(d, orders[i]))

\* the same for the classification that reads the snapshot through the Map by
\* order id: the rows it groups under the load
TriggeredAndDoneByMap(d, orders, n) ==
    LET members == loadsGroupedByMap(d, orders, n)
    IN  /\ members # {}
        /\ \/ \E i \in members : ShippedQuantity(orders[i]) > 0
           \/ \A i \in members : orders[i].estado_marketer_order = "cerrada"
        /\ \A i \in members : isOsDone(orders[i])

\* C20: in a reconcile pass no load name is in both the release-letter and the
\* release-priority set, and a load that meets the shipped/closed trigger and is
\* all done is in release-letter only (in both versions of the classification).
C20_ReleaseSetsDisjoint ==
    Answered("reconcile") =>
        /\ loadsToReleaseLetter(pre, Snapshot) \cap loadsToReleasePriority(pre, Snapshot) = {}
        /\ loadsToReleaseLetterByMap(pre, Snapshot)
              \cap loadsToReleasePriorityByMap(pre, Snapshot) = {}
        /\ \A n \in LoadNames :
              /\ TriggeredAndDone(pre, Snapshot, n) =>
                    /\ n \in loadsToReleaseLetter(pre, Snapshot)
                    /\ n \notin loadsToReleasePriority(pre, Snapshot)
              /\ TriggeredAndDoneByMap(pre, Snapshot, n) =>
                    /\ n \in loadsToReleaseLetterByMap(pre, Snapshot)
                    /\ n \notin loadsToReleasePriorityByMap(pre, Snapshot)

\* a pass with a load that is shipped and all done, released by letter and keeping
\* its rank out of the release-priority set, next to a load released by priority
C20_Witness ==
    /\ Answered("reconcile")
    /\ \E n \in LoadNames :
          /\ TriggeredAndDone(pre, Snapshot, n)
          /\ n \in DOMAIN pre.load_priorities
          /\ TriggeredAndDoneByMap(pre, Snapshot, n)
          /\ \A o \in DOMAIN db.loads : db.loads[o] # n
    /\ loadsToReleasePriority(pre, Snapshot) # {}
    /\ loadsToReleasePriorityByMap(pre, Snapshot) # {}

\* the load names assigned to at least one order
LoadNamesInUse(d) == {d.loads[o] : o \in DOMAIN d.loads}

\* C21: in every reachable state each load name with a priority rank is the load
\* of at least one order.
C21_RankedLoadsAreInUse == DOMAIN db.load_priorities \subseteq LoadNamesInUse(db)

\* the lines and the order ids listed in a snapshot
LinesListed(orders) == {<<orders[i].id_marketer_order, orders[i].codigo_producto>> : i \in 1..Len(orders)}

OrdersListed(orders) == {l[1] : l \in LinesListed(orders)}

\* C22: after a successful reconcile of the version with orphan cleanup every
\* line assignment is for a line listed in the snapshot and every Load row is for
\* an order listed in it; with an empty snapshot both tables are empty.
C22_NoOrphansLeft ==
    Answered("reconcileByMap") =>
        /\ \A r \in db.line_assignments : <<r[1], r[2]>> \in LinesListed(Snapshot)
        /\ DOMAIN db.loads \subseteq OrdersListed(Snapshot)
        /\ Len(Snapshot) = 0 => db.line_assignments = {} /\ db.loads = EmptyMap

\* a reconcile on a snapshot with orders that found an assignment of a line not
\* listed and a Load row of an order not listed
C22_Witness ==
    /\ Answered("reconcileByMap")
    /\ Len(Snapshot) > 0
    /\ \E r \in pre.line_assignments : <<r[1], r[2]>> \notin LinesListed(Snapshot)
    /\ \E o \in DOMAIN pre.loads : o \notin OrdersListed(Snapshot)
    /\ db.line_assignments # {}

\* the rows of a snapshot for a line whose packing status is done or shipped
DoneOrShippedRows(orders, line) ==
    {i \in 1..Len(orders) :
        /\ <<orders[i].id_marketer_order, orders[i].codigo_producto>> = line
        /\ FirstMatchingRule(orders[i], FALSE) \in {"done", "shipped"}}

\* C23: after a successful reconcile of the version that manages line
\* assignments, no assignment is left for a line that the snapshot lists as done
\* or shipped, a line shipped in part and assigned below the request included.
C23_NoAssignmentForDoneLine ==
    Answered("reconcileByMap") =>
        \A r \in db.line_assignments : DoneOrShippedRows(Snapshot, <<r[1], r[2]>>) = {}

\* the status of an outfeed, PAUSED when none is stored
StatusOf(d, o) == IF o \in DOMAIN d.outfeed_status THEN d.outfeed_status[o] ELSE "PAUSED"

\* the lines at sequence 1 of at least one RUNNING outfeed
HeadsOfRunning(d) ==
    {l \in Lines : \E o \in Outfeeds :
        /\ StatusOf(d, o) = "RUNNING"
        /\ \E r \in RowsOf(d.outfeed_queue, o) : r.sequence = 1 /\ RowLine(r) = l}

\* C24: a reconcile takes as being packed exactly the lines at sequence 1 of an
\* outfeed whose status is RUNNING, an outfeed without stored status being
\* PAUSED, and classifies every order of the snapshot with that flag.
C24_BeingPackedIffHeadOfRunning ==
    Answered("reconcile") =>
        /\ IsBeingPackedSet(pre) = HeadsOfRunning(pre)
        /\ \A i \in 1..Len(Snapshot) :
              StatusIn(pre, Snapshot[i])
                  = FirstMatchingRule(Snapshot[i],
                        <<Snapshot[i].id_marketer_order, Snapshot[i].codigo_producto>>
                            \in HeadsOfRunning(pre))

\* a reconcile that met the head of a RUNNING outfeed, classified being_packed,
\* and a head of an outfeed without stored status
C24_Witness ==
    /\ Answered("reconcile")
    /\ \E i \in 1..Len(Snapshot) : StatusIn(pre, Snapshot[i]) = "being_packed"
    /\ \E o \in Outfeeds \ DOMAIN pre.outfeed_status :
          \E r \in RowsOf(pre.outfeed_queue, o) : r.sequence = 1

C26_ReturnedStateIsCommitted ==
    Answered("reconcile") =>
        /\ last.args.state.loads = db.loads
        /\ last.args.state.priorities = db.load_priorities
        /\ last.args.state.statuses = db.outfeed_status
        /\ [queues |-> last.args.state.queues, statuses |-> last.args.state.statuses]
               \in planningBoardState(db)

\* a reconcile that changed the tables and answered with a queue of two rows
\* whose tags are not in tag order
C26_Witness ==
    /\ Answered("reconcile")
    /\ db # pre
    /\ \E o \in DOMAIN last.args.state.queues :
          /\ Len(last.args.state.queues[o]) = 2
          /\ TextLess(last.args.state.queues[o][2].tag, last.args.state.queues[o][1].tag)

\* two rows of one outfeed with the same sequence
DuplicateSequence(queue) ==
    \E r1, r2 \in queue :
        r1 # r2 /\ r1.outfeed_id = r2.outfeed_id /\ r1.sequence = r2.sequence

AllQueuedDone(o) ==
    /\ tx.op = "polling"
    /\ \A r \in RowsOf(db.outfeed_queue, o) :
          DoneOrShippedRows(tx.args.answers[1].elems[1].data, RowLine(r)) # {}

\* C28: once the feed is fixed and only reconcile is called, an outfeed whose
\* queued lines are all done or shipped in the feed is eventually empty.
C28_DoneQueueDrains ==
    \A o \in Outfeeds : AllQueuedDone(o) ~> (RowsOf(db.outfeed_queue, o) = {})

\* C29: all committed queue rows that carry one tag are for one line, also when
\* two plan-order requests for different lines run at once.
C29_OneLinePerTag ==
    \A r1, r2 \in db.outfeed_queue : r1.tag = r2.tag => RowLine(r1) = RowLine(r2)

\* the row is still in its outfeed, possibly at another sequence
StillQueued(queue, r) ==
    \E x \in queue : x.outfeed_id = r.outfeed_id /\ x.tag = r.tag /\ RowLine(x) = RowLine(r)

\* the line is classified done or shipped in the snapshot
LineDoneOrShipped(d, orders, line) ==
    /\ FindOrder(orders, line) # 0
    /\ IsDoneOrShipped(getPackingStatus(orders[FindOrder(orders, line)], IsBeingPackedSet(d)))

\* C30: a reconcile removes a queue row only when the row's own line is done or
\* shipped in the snapshot; a row whose line is anything else, or is absent
\* from the snapshot, is still in its outfeed afterwards.
C30_RemovesOnlyDoneLines ==
    Answered("reconcile") =>
        \A r \in pre.outfeed_queue :
            ~StillQueued(db.outfeed_queue, r) => LineDoneOrShipped(pre, Snapshot, RowLine(r))

\* the row of the queue that x was before the call: same outfeed, tag and line
Same(x, r) == x.outfeed_id = r.outfeed_id /\ x.tag = r.tag /\ RowLine(x) = RowLine(r)

\* C31: a successful reconcile only removes and renumbers: the Load rows, the
\* ranked load names and the queue entries are subsets of what they were, two
\* surviving entries of an outfeed keep their relative order, and the outfeed
\* statuses are unchanged.
C31_OnlyRemovesAndRenumbers ==
    Answered("reconcile") =>
        /\ \A o \in DOMAIN db.loads : o \in DOMAIN pre.loads /\ db.loads[o] = pre.loads[o]
        /\ DOMAIN db.load_priorities \subseteq DOMAIN pre.load_priorities
        /\ \A x \in db.outfeed_queue : \E r \in pre.outfeed_queue : Same(x, r)
        /\ \A x, y \in db.outfeed_queue : \A r, s \in pre.outfeed_queue :
              (Same(x, r) /\ Same(y, s) /\ x.outfeed_id = y.outfeed_id /\ r.sequence < s.sequence)
                  => x.sequence < y.sequence
        /\ db.outfeed_status = pre.outfeed_status

\* a reconcile retired a head and renumbered two rows behind it, and released a load
C31_Witness ==
    /\ Answered("reconcile")
    /\ \E o \in Outfeeds :
          /\ Cardinality(RowsOf(pre.outfeed_queue, o)) = 3
          /\ Cardinality(RowsOf(db.outfeed_queue, o)) = 2
          /\ \A x \in RowsOf(db.outfeed_queue, o) :
                \E r \in pre.outfeed_queue : Same(x, r) /\ r.sequence # x.sequence

\* the length of the longest queue
Longest(queue) ==
    LET lens == {Cardinality(RowsOf(queue, o)) : o \in Outfeeds}
    IN  CHOOSE n \in lens : \A m \in lens : m <= n

\* C32: with a fixed feed and reconcile the only request, a run after the first
\* L + 1 runs, L the length of the longest queue when the polling began, leaves
\* the tables as they were.
C32_FixedPointWithinLongestPlusOne ==
    (tx.op = "runs" /\ tx.pc > Longest(tx.pre.outfeed_queue) + 1) => db = tx.work

\* a queue of two was drained by the runs, and a run came after the first three
C32_Witness ==
    /\ tx.op = "runs"
    /\ Longest(tx.pre.outfeed_queue) = 2
    /\ tx.pc > 3
    /\ db.outfeed_queue = {}

\* the outfeeds named in the outfeedIds of the last request
Listed == {last.args.outfeedIds[i] : i \in 1..Len(last.args.outfeedIds)}

\* C33: a planOrder, answered with success or with an error, leaves the loads,
\* the priorities, the outfeed statuses and the queue of every outfeed that is
\* not in outfeedIds as they were.
C33_PlanOrderTouchesListedOnly ==
    last.op = "planOrder" =>
        /\ db.loads = pre.loads
        /\ db.load_priorities = pre.load_priorities
        /\ db.outfeed_status = pre.outfeed_status
        /\ db.line_assignments = pre.line_assignments
        /\ \A o \in Outfeeds \ Listed : RowsOf(db.outfeed_queue, o) = RowsOf(pre.outfeed_queue, o)

\* a high-priority planOrder changed the queue of its outfeed, which held
\* rows, while an outfeed it did not list held rows too
C33_Witness ==
    /\ Answered("planOrder")
    /\ last.args.isHighPriority
    /\ db.outfeed_queue # pre.outfeed_queue
    /\ \E o \in Outfeeds \ Listed : RowsOf(pre.outfeed_queue, o) # {}
    /\ \E o \in Listed : RowsOf(pre.outfeed_queue, o) # {}

\* the rows of the snapshot for the orders of load n
RowsOfLoad(d, orders, n) ==
    {i \in 1..Len(orders) : /\ orders[i].id_marketer_order \in DOMAIN d.loads
                            /\ d.loads[orders[i].id_marketer_order] = n}

\* order o has a done line and a line that is not done in the snapshot
MixedOrder(orders, o) ==
    \E i, j \in 1..Len(orders) :
        /\ orders[i].id_marketer_order = o /\ orders[j].id_marketer_order = o
        /\ isOsDone(orders[i]) /\ ~isOsDone(orders[j])

\* C34: in the version of part_000 a load with an order that has a done line and
\* a line that is not done in the snapshot, with nothing shipped and no order
\* closed, keeps the Load row of that order and its priority rank after a
\* successful reconcile, in whatever order the feed lists the lines.
C34_MixedOrderKeepsLoad ==
    Answered("reconcileByMap") =>
        \A o \in DOMAIN pre.loads :
            (/\ MixedOrder(Snapshot, o)
             /\ \A i \in RowsOfLoad(pre, Snapshot, pre.loads[o]) :
                   /\ ShippedQuantity(Snapshot[i]) = 0
                   /\ Snapshot[i].estado_marketer_order # "cerrada")
                => /\ o \in DOMAIN db.loads /\ db.loads[o] = pre.loads[o]
                   /\ pre.loads[o] \in DOMAIN pre.load_priorities
                         => pre.loads[o] \in DOMAIN db.load_priorities

\* the reconcile of part_000 or of server.js answered with success
AnsweredSync == Answered("reconcileByMap") \/ Answered("reconcileAutonomous")

\* C35: after a successful reconcile of part_000 or of server.js every load name
\* with a rank is the load of a remaining Load row, the ranks are exactly 1..N,
\* and a lower rank before is a lower rank after.
C35_RanksSyncedAndDense ==
    AnsweredSync =>
        /\ DOMAIN db.load_priorities \subseteq LoadNamesInUse(db)
        /\ {db.load_priorities[n] : n \in DOMAIN db.load_priorities}
              = 1..Cardinality(DOMAIN db.load_priorities)
        /\ \A a, b \in DOMAIN db.load_priorities :
              /\ a \in DOMAIN pre.load_priorities /\ b \in DOMAIN pre.load_priorities
              /\ pre.load_priorities[a] < pre.load_priorities[b]
                  => db.load_priorities[a] < db.load_priorities[b]

\* a reconcile of server.js found the rank of a load without a Load row and
\* kept the ranks of two loads
C35_Witness ==
    /\ Answered("reconcileAutonomous")
    /\ ~(DOMAIN pre.load_priorities \subseteq LoadNamesInUse(db))
    /\ Cardinality(DOMAIN db.load_priorities) >= 2

\* the updates of request s are in the stored mapping
Stored(s) ==
    LET ups == tx.sessions[s].updates
    IN  \A i \in 1..Len(ups) :
            IF ups[i].load # << >>
            THEN ups[i].orderId \in DOMAIN db.loads /\ db.loads[ups[i].orderId] = ups[i].load
            ELSE ups[i].orderId \notin DOMAIN db.loads

\* the two requests update different orders
DifferentOrders ==
    \A i \in 1..Len(tx.sessions[1].updates), j \in 1..Len(tx.sessions[2].updates) :
        tx.sessions[1].updates[i].orderId # tx.sessions[2].updates[j].orderId

\* C36: when two file-backed POST /api/loads requests for different orders have
\* both been answered with success, the stored mapping holds the updates of
\* both, whatever the interleaving of their reads and writes.
C36_BothUpdatesStored ==
    (/\ \A s \in Sessions : tx.sessions[s].op = "answered" /\ tx.sessions[s].ok
     /\ DifferentOrders)
        => tx.file = "json" /\ \A s \in Sessions : Stored(s)

====
